---- MODULE Spec2Model ----
(***************************************************************************)
(* A model of xochimilco: the Session state machine (session.go), the      *)
(* Double Ratchet (doubleratchet/doubleratchet.go), the DH ratchet and the *)
(* message envelope.  Cryptography is symbolic: a key is a term, a KDF is  *)
(* an injective constructor, a ciphertext opens only under the key that    *)
(* made it.  A byte string is a tuple; the nil slice is the empty tuple.   *)
(***************************************************************************)
EXTENDS Integers, Sequences, FiniteSets, TLC

\* ------------------------------------------------------------------ bounds

\* Spec: data messages sent, key pairs one party draws, and calls beyond the
\* plain run (Close, forged input, a second Offer or Acknowledge)
MaxSend == 1

MaxKeys == 4

MaxExtra == 1

\* SpecRatchet: data messages sent in a dialogue, key pairs one party draws,
\* and messages of a long burst that one party decrypts
MaxMsgs == 3

MaxRatchetKeys == 4

MaxPick == 1

\* SpecFlood: runs of maxSkip lost messages followed by a delivered one
MaxRounds == 9

\* SpecTamper: data messages sent, and altered messages received
MaxTamperMsgs == 2

MaxFlips == 1

\* SpecKeyBuffer: DH keys inserted beyond the buffer's capacity, the highest
\* message number, and insertions under a DH key that was inserted before
MaxEvict == 2

MaxKbMsgNo == 1

MaxKbExtra == 1

\* SpecShort: data messages sent and cut messages handed to Receive
MaxShortMsgs == 2

MaxCuts == 1

\* the handshakes of one pair of sessions, and the data messages of each
MaxHandshakes == 2

MaxReuseMsgs == 1

\* SpecX3dh: signed prekeys one party makes and ephemeral keys one party draws
MaxSpk == 3

MaxEk == 2

\* SpecCodec: the longest data body and acknowledge ciphertext marshalled
MaxBody == 2

\* SpecHeader: the counters marshalled lie within this distance of 0, of
\* 256 and of 65536
MaxNoSpread == 2

\* SpecAead: the message keys and the associated data of encrypt and decrypt
MaxAeadKeys == 3

MaxAeadAds == 2

\* SpecDhRatchet: the steps of one DH ratchet and the peer keys it is given
MaxDhrSteps == 3

MaxPeerKeys == 3

\* ------------------------------------------------------- program constants

maxSkip == 32

maxSkipChains == 8

aesBlockSize == 16

sha256Size == 32

maxHeaderNo == 65535

sessOffer == 1

sessAck == 2

sessData == 3

sessClose == 4

Prefix == "!XO!"

Suffix == "!OX!"

\* ------------------------------------------------------------- byte strings

Nil == <<>>

\* the value v under the name Body gives it
Let(v, Body(_)) == Body(v)

Party == {"alice", "bob"}

Peer(p) == IF p = "alice" THEN "bob" ELSE "alice"

Plaintexts == {"hello", "nice"}

\* the 23 random bytes Acknowledge encrypts as the initial payload
InitialPayload == "nonce"

\* Ed25519 identity key pair of a party (Session.IdentityKey and its Public())
IdentityKey(p) == <<"idpriv", p>>

IdPub(p) == <<"idpub", p>>

\* the n-th X25519 key pair a party draws: dhKeyPair()
dhKeyPair(p, n) == [pub |-> <<"pub", p, n>>, priv |-> <<"priv", p, n>>]

\* Ed25519 -> X25519 conversion of an identity key: key pair number 0
edToX(k) ==
    IF k = Nil THEN Nil
    ELSE IF k[1] = "idpriv" THEN <<"priv", k[2], 0>>
    ELSE IF k[1] = "idpub" THEN <<"pub", k[2], 0>>
    ELSE Nil

Rank(k) == (IF k[2] = "alice" THEN 0 ELSE IF k[2] = "bob" THEN 100 ELSE 200) + k[3]

\* dh: X25519 shared secret; fails on a key of the wrong length (nil).
\* DH(a, B) = DH(b, A): the secret is the unordered pair of the key pairs.
dh(privKey, pubKey) ==
    IF privKey = Nil \/ pubKey = Nil
    THEN [err |-> TRUE, out |-> Nil]
    ELSE [err |-> FALSE,
          out |-> IF Rank(privKey) <= Rank(pubKey)
                  THEN <<"dh", <<privKey[2], privKey[3]>>, <<pubKey[2], pubKey[3]>>>>
                  ELSE <<"dh", <<pubKey[2], pubKey[3]>>, <<privKey[2], privKey[3]>>>>]

\* chainKdf: HMAC-SHA256 keyed by ckIn over 0x00 and over 0x01
chainKdf(ckIn) ==
    IF ckIn = Nil
    THEN [err |-> TRUE, ckOut |-> Nil, msgKey |-> Nil]
    ELSE [err |-> FALSE, ckOut |-> <<"ck", ckIn>>, msgKey |-> <<"mk", ckIn>>]

\* rootKdf: HKDF-SHA256, salt rkIn, secret dh, info 0x02, split in two
rootKdf(rkIn, dhOut) ==
    IF rkIn = Nil
    THEN [err |-> TRUE, rkOut |-> Nil, ck |-> Nil]
    ELSE [err |-> FALSE, rkOut |-> <<"rk", rkIn, dhOut>>, ck |-> <<"rck", rkIn, dhOut>>]

\* encryptParams: HKDF-SHA256 of the message key, info 0x03, split in three
encryptParams(msgKey) ==
    IF msgKey = Nil
    THEN [err |-> TRUE, encKey |-> Nil, authKey |-> Nil, iv |-> Nil]
    ELSE [err |-> FALSE, encKey |-> <<"enc", msgKey>>,
          authKey |-> <<"auth", msgKey>>, iv |-> <<"iv", msgKey>>]

pkcs7Pad(data) == <<"padded", data>>

\* pkcs7Unpad fails on bytes that do not end in a valid padding
pkcs7Unpad(padded) ==
    IF padded # Nil /\ padded[1] = "padded"
    THEN [err |-> FALSE, data |-> padded[2]]
    ELSE [err |-> TRUE, data |-> ""]

\* AES-256-CBC under (key, iv)
cbcEncrypt(key, iv, padded) == <<"cbc", key, iv, padded>>

\* the AES output of key and iv
IsCbcOf(key, iv, aesCipher) ==
    /\ aesCipher # Nil
    /\ aesCipher[1] = "cbc"
    /\ aesCipher[2] = key
    /\ aesCipher[3] = iv

\* a plaintext of more than one block with data in its last block, or of
\* more than two blocks: a block before the last one can be altered without
\* touching the padding
InnerFlippable(data) == Len(data) > aesBlockSize

\* CBC decryption of one altered bit turns its own block into random bytes
\* and alters the same bit of the next block. Decrypting under another key or
\* iv, or bytes that are no AES output of this key, or an altered last block,
\* gives random bytes, which end in a valid padding only by chance (at most
\* one key in about 256): they are taken to have none.
cbcDecrypt(key, iv, aesCipher) ==
    IF IsCbcOf(key, iv, aesCipher)
    THEN aesCipher[4]
    ELSE IF /\ aesCipher # Nil
            /\ aesCipher[1] = "cbcflip"
            /\ aesCipher[2] = "inner"
            /\ IsCbcOf(key, iv, aesCipher[3])
            /\ InnerFlippable(aesCipher[3][4][2])
    THEN <<"padded", "damaged">>
    ELSE <<"garbage">>

hmacSum(authKey, data) == <<"hmac", authKey, data>>

\* encrypt: AES256-CBC of the padded plaintext, followed by the HMAC of the
\* associated data alone
encrypt(msgKey, plaintext, associatedData) ==
    Let(encryptParams(msgKey), LAMBDA p :
        IF p.err
        THEN [err |-> TRUE, ciphertext |-> Nil]
        ELSE [err |-> FALSE,
              ciphertext |-> <<cbcEncrypt(p.encKey, p.iv, pkcs7Pad(plaintext)),
                               hmacSum(p.authKey, associatedData)>>])

\* Bytes that are no output of encrypt and too few to be one count by their
\* number alone: <<n>> is a ciphertext of n bytes, n < aesBlockSize +
\* sha256Size.  The slice ciphertext[:len(ciphertext)-sha256.Size] of fewer
\* than sha256Size bytes is out of range: decrypt panics.
IsShort(ciphertext) == Len(ciphertext) < 2

shortLen(ciphertext) == IF ciphertext = Nil THEN 0 ELSE ciphertext[1]

\* decrypt of a short ciphertext: a panic, or the error of an AES part that
\* is not aligned or has no padding
decryptShort(n) ==
    IF n < sha256Size THEN [err |-> TRUE, panic |-> TRUE, plaintext |-> ""]
    ELSE IF (n - sha256Size) % aesBlockSize # 0
    THEN [err |-> TRUE, panic |-> FALSE, plaintext |-> ""]
    ELSE [err |-> pkcs7Unpad(Nil).err, panic |-> FALSE, plaintext |-> ""]

\* the mutant of decrypt: the HMAC comparison is dropped
decryptNoMac(msgKey, ciphertext, associatedData) ==
    Let(encryptParams(msgKey), LAMBDA p :
        IF p.err
        THEN [err |-> TRUE, panic |-> FALSE, plaintext |-> ""]
        ELSE IF IsShort(ciphertext) THEN decryptShort(shortLen(ciphertext))
        ELSE Let(pkcs7Unpad(cbcDecrypt(p.encKey, p.iv, ciphertext[1])), LAMBDA u :
             IF u.err THEN [err |-> TRUE, panic |-> FALSE, plaintext |-> ""]
             ELSE [err |-> FALSE, panic |-> FALSE, plaintext |-> u.data]))

\* decrypt: the reverse of encrypt; the plaintext is returned only when the
\* padding is valid and the HMAC equals the expected one.  A panic returns
\* nothing: err is set with it, so that it is never taken for a success.
decrypt(msgKey, ciphertext, associatedData) ==
    Let(encryptParams(msgKey), LAMBDA p :
        IF p.err
        THEN [err |-> TRUE, panic |-> FALSE, plaintext |-> ""]
        ELSE IF IsShort(ciphertext) THEN decryptShort(shortLen(ciphertext))
        ELSE Let(pkcs7Unpad(cbcDecrypt(p.encKey, p.iv, ciphertext[1])), LAMBDA u :
             IF u.err THEN [err |-> TRUE, panic |-> FALSE, plaintext |-> ""]
             ELSE IF ciphertext[2] # hmacSum(p.authKey, associatedData)
                  THEN [err |-> TRUE, panic |-> FALSE, plaintext |-> ""]
                  ELSE [err |-> FALSE, panic |-> FALSE, plaintext |-> u.data]))

\* ------------------------------------------------------------- DH ratchet

\* dhRatchetActive: the active peer stores the peer's public key and draws
\* its own key pair; the root key is the X3DH session key
dhRatchetActive(sessKey, peerDhPub, kp) ==
    [rootKey |-> sessKey, dhPub |-> kp.pub, dhPriv |-> kp.priv,
     peerDhPub |-> peerDhPub, isActive |-> TRUE, isInitialized |-> FALSE]

\* dhRatchetPassive: the passive peer starts from a given key pair
dhRatchetPassive(sessKey, dhPub, dhPriv) ==
    [rootKey |-> sessKey, dhPub |-> dhPub, dhPriv |-> dhPriv,
     peerDhPub |-> Nil, isActive |-> FALSE, isInitialized |-> FALSE]

\* the mutant of stepInitial: the ratchet is not marked as initialized
stepInitialUnmarked(r) ==
    Let(dh(r.dhPriv, r.peerDhPub), LAMBDA d :
        IF d.err
        THEN [r |-> r, sendKey |-> Nil, recvKey |-> Nil, err |-> TRUE, gen |-> FALSE]
        ELSE Let(rootKdf(r.rootKey, d.out), LAMBDA k :
             [r |-> [r EXCEPT !.rootKey = k.rkOut],
              sendKey |-> k.ck, recvKey |-> Nil, err |-> k.err, gen |-> FALSE]))

\* the active peer's one-time initial step: the send secret from the stored
\* peer key
stepInitial(r) ==
    Let(dh(r.dhPriv, r.peerDhPub), LAMBDA d :
        IF d.err
        THEN [r |-> r, sendKey |-> Nil, recvKey |-> Nil, err |-> TRUE, gen |-> FALSE]
        ELSE Let(rootKdf(r.rootKey, d.out), LAMBDA k :
             [r |-> [r EXCEPT !.rootKey = k.rkOut, !.isInitialized = TRUE],
              sendKey |-> k.ck, recvKey |-> Nil, err |-> k.err, gen |-> FALSE]))

\* every other step, given the secret d1 for the receive side
stepWith(r, peerDhPub, kp, d1) ==
    IF d1.err
    THEN [r |-> [r EXCEPT !.peerDhPub = peerDhPub],
          sendKey |-> Nil, recvKey |-> Nil, err |-> TRUE, gen |-> FALSE]
    ELSE Let(rootKdf(r.rootKey, d1.out), LAMBDA k1 :
         Let(dh(kp.priv, peerDhPub), LAMBDA d2 :
         Let(rootKdf(k1.rkOut, d2.out), LAMBDA k2 :
             [r |-> [r EXCEPT !.peerDhPub = peerDhPub, !.rootKey = k2.rkOut,
                              !.dhPub = kp.pub, !.dhPriv = kp.priv],
              sendKey |-> k2.ck, recvKey |-> k1.ck,
              err |-> k1.err \/ k2.err, gen |-> TRUE])))

\* the mutant of step: the receive secret is derived with the new private key
stepRecvWithNewKey(r, peerDhPub, kp) ==
    IF r.isActive /\ ~r.isInitialized
    THEN stepInitial(r)
    ELSE stepWith(r, peerDhPub, kp, dh(kp.priv, peerDhPub))

\* dhRatchet.step: the active peer's one-time initial step derives the send
\* secret from the stored peer key and ignores its argument; every other step
\* stores the peer key, derives the receive secret with the old private key,
\* draws a new key pair and derives the send secret with the new private key.
\* Each secret passes through rootKdf, which also advances the root key.
step(r, peerDhPub, kp) ==
    IF r.isActive /\ ~r.isInitialized
    THEN stepInitial(r)
    ELSE stepWith(r, peerDhPub, kp, dh(r.dhPriv, peerDhPub))

\* --------------------------------------------------------- Double Ratchet

EmptyMap == [x \in {} |-> Nil]

\* CreateActive
CreateActive(sessKey, associatedData, peerDhPub, kp) ==
    [associatedData |-> associatedData,
     dhr |-> dhRatchetActive(sessKey, peerDhPub, kp),
     peerDhPub |-> peerDhPub, chainKeySend |-> Nil, chainKeyRecv |-> Nil,
     sendNo |-> 0, recvNo |-> 0, prevSendNo |-> 0,
     skippedMsgKeys |-> EmptyMap]

\* CreatePassive
CreatePassive(sessKey, associatedData, dhPub, dhPriv) ==
    [associatedData |-> associatedData,
     dhr |-> dhRatchetPassive(sessKey, dhPub, dhPriv),
     peerDhPub |-> Nil, chainKeySend |-> Nil, chainKeyRecv |-> Nil,
     sendNo |-> 0, recvNo |-> 0, prevSendNo |-> 0,
     skippedMsgKeys |-> EmptyMap]

\* the mutant of dhStep: the length of the previous sending chain is not
\* recorded
dhStepKeepPrev(dr, kp) ==
    Let(step(dr.dhr, dr.peerDhPub, kp), LAMBDA s :
        [dr |-> [dr EXCEPT !.sendNo = 0, !.recvNo = 0,
                           !.dhr = s.r, !.chainKeySend = s.sendKey,
                           !.chainKeyRecv = s.recvKey],
         err |-> s.err, gen |-> s.gen])

\* dhStep: the counters are reset before the DH ratchet steps
dhStep(dr, kp) ==
    Let(step(dr.dhr, dr.peerDhPub, kp), LAMBDA s :
        [dr |-> [dr EXCEPT !.prevSendNo = dr.sendNo, !.sendNo = 0, !.recvNo = 0,
                           !.dhr = s.r, !.chainKeySend = s.sendKey,
                           !.chainKeyRecv = s.recvKey],
         err |-> s.err, gen |-> s.gen])

NoHeader == [DhPub |-> Nil, PrevNo |-> 0, MsgNo |-> 0]

\* the mutant of Encrypt: the header does not carry the length of the
\* previous sending chain
EncryptNoPrev(dr, plaintext, kp) ==
    Let(IF dr.chainKeySend = Nil THEN dhStep(dr, kp)
        ELSE [dr |-> dr, err |-> FALSE, gen |-> FALSE], LAMBDA s :
        IF s.err
        THEN [dr |-> s.dr, header |-> NoHeader, ciphertext |-> Nil,
              err |-> TRUE, gen |-> s.gen]
        ELSE Let(chainKdf(s.dr.chainKeySend), LAMBDA k :
             IF k.err
             THEN [dr |-> [s.dr EXCEPT !.chainKeySend = k.ckOut], header |-> NoHeader,
                   ciphertext |-> Nil, err |-> TRUE, gen |-> s.gen]
             ELSE Let(encrypt(k.msgKey, plaintext, s.dr.associatedData), LAMBDA e :
                  [dr |-> [s.dr EXCEPT !.chainKeySend = k.ckOut,
                                       !.sendNo = s.dr.sendNo + 1],
                   header |-> [DhPub |-> s.dr.dhr.dhPub, PrevNo |-> 0,
                               MsgNo |-> s.dr.sendNo],
                   ciphertext |-> e.ciphertext, err |-> e.err, gen |-> s.gen])))

\* the mutant of Encrypt: the DH ratchet steps before every message
EncryptAlwaysStep(dr, plaintext, kp) ==
    Let(dhStep(dr, kp), LAMBDA s :
        IF s.err
        THEN [dr |-> s.dr, header |-> NoHeader, ciphertext |-> Nil,
              err |-> TRUE, gen |-> s.gen]
        ELSE Let(chainKdf(s.dr.chainKeySend), LAMBDA k :
             IF k.err
             THEN [dr |-> [s.dr EXCEPT !.chainKeySend = k.ckOut], header |-> NoHeader,
                   ciphertext |-> Nil, err |-> TRUE, gen |-> s.gen]
             ELSE Let(encrypt(k.msgKey, plaintext, s.dr.associatedData), LAMBDA e :
                  [dr |-> [s.dr EXCEPT !.chainKeySend = k.ckOut,
                                       !.sendNo = s.dr.sendNo + 1],
                   header |-> [DhPub |-> s.dr.dhr.dhPub, PrevNo |-> s.dr.prevSendNo,
                               MsgNo |-> s.dr.sendNo],
                   ciphertext |-> e.ciphertext, err |-> e.err, gen |-> s.gen])))

\* the mutant of Encrypt: the message number is not advanced
EncryptNoCount(dr, plaintext, kp) ==
    Let(IF dr.chainKeySend = Nil THEN dhStep(dr, kp)
        ELSE [dr |-> dr, err |-> FALSE, gen |-> FALSE], LAMBDA s :
        IF s.err
        THEN [dr |-> s.dr, header |-> NoHeader, ciphertext |-> Nil,
              err |-> TRUE, gen |-> s.gen]
        ELSE Let(chainKdf(s.dr.chainKeySend), LAMBDA k :
             IF k.err
             THEN [dr |-> [s.dr EXCEPT !.chainKeySend = k.ckOut], header |-> NoHeader,
                   ciphertext |-> Nil, err |-> TRUE, gen |-> s.gen]
             ELSE Let(encrypt(k.msgKey, plaintext, s.dr.associatedData), LAMBDA e :
                  [dr |-> [s.dr EXCEPT !.chainKeySend = k.ckOut],
                   header |-> [DhPub |-> s.dr.dhr.dhPub, PrevNo |-> s.dr.prevSendNo,
                               MsgNo |-> s.dr.sendNo],
                   ciphertext |-> e.ciphertext, err |-> e.err, gen |-> s.gen])))

\* DoubleRatchet.Encrypt
Encrypt(dr, plaintext, kp) ==
    Let(IF dr.chainKeySend = Nil THEN dhStep(dr, kp)
        ELSE [dr |-> dr, err |-> FALSE, gen |-> FALSE], LAMBDA s :
        IF s.err
        THEN [dr |-> s.dr, header |-> NoHeader, ciphertext |-> Nil,
              err |-> TRUE, gen |-> s.gen]
        ELSE Let(chainKdf(s.dr.chainKeySend), LAMBDA k :
             IF k.err
             THEN [dr |-> [s.dr EXCEPT !.chainKeySend = k.ckOut], header |-> NoHeader,
                   ciphertext |-> Nil, err |-> TRUE, gen |-> s.gen]
             ELSE Let(encrypt(k.msgKey, plaintext, s.dr.associatedData), LAMBDA e :
                  [dr |-> [s.dr EXCEPT !.chainKeySend = k.ckOut,
                                       !.sendNo = s.dr.sendNo + 1],
                   header |-> [DhPub |-> s.dr.dhr.dhPub, PrevNo |-> s.dr.prevSendNo,
                               MsgNo |-> s.dr.sendNo],
                   ciphertext |-> e.ciphertext, err |-> e.err, gen |-> s.gen])))

\* the skipped-key map with the key of (dhPubId, msgNo) added
putSkipped(all, dhPubId, msgNo, msgKey) ==
    [d \in (DOMAIN all) \cup {dhPubId} |->
        IF d = dhPubId
        THEN [n \in (IF d \in DOMAIN all THEN DOMAIN all[d] ELSE {}) \cup {msgNo} |->
                 IF n = msgNo THEN msgKey ELSE all[d][n]]
        ELSE all[d]]

\* the mutant of dropSkipped: a used key stays in the map
keepSkipped(all, dhPubId, msgNo) == all

\* the skipped-key map with the key of (dhPubId, msgNo) deleted, and the
\* chain's sub-map with it when that was its last key
dropSkipped(all, dhPubId, msgNo) ==
    IF DOMAIN all[dhPubId] = {msgNo}
    THEN [d \in (DOMAIN all) \ {dhPubId} |-> all[d]]
    ELSE [all EXCEPT ![dhPubId] = [n \in (DOMAIN all[dhPubId]) \ {msgNo} |-> all[dhPubId][n]]]

RECURSIVE skipLoop(_, _)
\* the loop of skipMsgKeys: one message key per skipped message number
skipLoop(dr, until) ==
    IF ~(dr.recvNo < until)
    THEN [dr |-> dr, err |-> FALSE]
    ELSE Let(chainKdf(dr.chainKeyRecv), LAMBDA k :
         IF k.err
         THEN [dr |-> [dr EXCEPT !.chainKeyRecv = k.ckOut], err |-> TRUE]
         ELSE skipLoop([dr EXCEPT !.chainKeyRecv = k.ckOut,
                                  !.skippedMsgKeys = putSkipped(dr.skippedMsgKeys,
                                                        dr.peerDhPub, dr.recvNo, k.msgKey),
                                  !.recvNo = dr.recvNo + 1], until))

\* the mutant of skipMsgKeys: the skipped keys are derived but not cached
skipMsgKeysNoCache(dr, until) ==
    IF dr.recvNo + maxSkip < until THEN [dr |-> dr, err |-> TRUE]
    ELSE IF dr.chainKeyRecv = Nil THEN [dr |-> dr, err |-> FALSE]
    ELSE Let(skipLoop(dr, until), LAMBDA r :
         [dr |-> [r.dr EXCEPT !.skippedMsgKeys = dr.skippedMsgKeys], err |-> r.err])

\* the mutant of skipMsgKeys: the limit is one message too low
skipMsgKeysOffByOne(dr, until) ==
    IF dr.recvNo + maxSkip <= until THEN [dr |-> dr, err |-> TRUE]
    ELSE IF dr.chainKeyRecv = Nil THEN [dr |-> dr, err |-> FALSE]
    ELSE skipLoop(dr, until)

\* DoubleRatchet.skipMsgKeys
skipMsgKeys(dr, until) ==
    IF dr.recvNo + maxSkip < until THEN [dr |-> dr, err |-> TRUE]
    ELSE IF dr.chainKeyRecv = Nil THEN [dr |-> dr, err |-> FALSE]
    ELSE skipLoop(dr, until)

\* Decrypt, first part: a header with another DH key than the stored one
\* skips the rest of the old chain and steps the DH ratchet
recvDhStep(dr, header, kp) ==
    IF header.DhPub # dr.peerDhPub
    THEN Let(skipMsgKeys(dr, header.PrevNo), LAMBDA sk :
         IF sk.err THEN [dr |-> sk.dr, err |-> TRUE, gen |-> FALSE]
         ELSE dhStep([sk.dr EXCEPT !.peerDhPub = header.DhPub], kp))
    ELSE [dr |-> dr, err |-> FALSE, gen |-> FALSE]

\* Decrypt, the chain's next key
recvNextKey(dr) ==
    Let(chainKdf(dr.chainKeyRecv), LAMBDA k :
        IF k.err THEN [dr |-> [dr EXCEPT !.chainKeyRecv = k.ckOut], msgKey |-> Nil, err |-> TRUE]
        ELSE [dr |-> [dr EXCEPT !.chainKeyRecv = k.ckOut, !.recvNo = dr.recvNo + 1],
              msgKey |-> k.msgKey, err |-> FALSE])

\* the mutant of recvMsgKey: a message ahead of the chain is taken for the
\* chain's next message
recvMsgKeyNoSkip(dr, header) ==
    IF header.MsgNo < dr.recvNo
    THEN [dr |-> dr, msgKey |-> Nil, err |-> TRUE]
    ELSE recvNextKey(dr)

\* Decrypt, the switch on the header's message number: a stored skipped key
\* (deleted on use), the chain's next key, or that key after skipping
recvMsgKey(dr, header) ==
    IF header.MsgNo < dr.recvNo
    THEN IF header.DhPub \notin DOMAIN dr.skippedMsgKeys
         THEN [dr |-> dr, msgKey |-> Nil, err |-> TRUE]
         ELSE IF header.MsgNo \notin DOMAIN dr.skippedMsgKeys[header.DhPub]
         THEN [dr |-> dr, msgKey |-> Nil, err |-> TRUE]
         ELSE [dr |-> [dr EXCEPT !.skippedMsgKeys =
                          dropSkipped(dr.skippedMsgKeys, header.DhPub, header.MsgNo)],
               msgKey |-> dr.skippedMsgKeys[header.DhPub][header.MsgNo], err |-> FALSE]
    ELSE IF header.MsgNo > dr.recvNo
    THEN Let(skipMsgKeys(dr, header.MsgNo), LAMBDA s :
         IF s.err THEN [dr |-> s.dr, msgKey |-> Nil, err |-> TRUE]
         ELSE recvNextKey(s.dr))
    ELSE recvNextKey(dr)

\* DoubleRatchet.Decrypt
Decrypt(dr, header, ciphertext, kp) ==
    Let(recvDhStep(dr, header, kp), LAMBDA s :
        IF s.err
        THEN [dr |-> s.dr, plaintext |-> "", err |-> TRUE, panic |-> FALSE, gen |-> s.gen]
        ELSE Let(recvMsgKey(s.dr, header), LAMBDA m :
             IF m.err
             THEN [dr |-> m.dr, plaintext |-> "", err |-> TRUE, panic |-> FALSE, gen |-> s.gen]
             ELSE Let(decrypt(m.msgKey, ciphertext, m.dr.associatedData), LAMBDA d :
                  [dr |-> m.dr, plaintext |-> d.plaintext, err |-> d.err,
                   panic |-> d.panic, gen |-> s.gen])))

\* -------------------------------------------------------------- key buffer

\* newKeyBuffer: no chain; chains lists the DH keys in the order in which
\* their first key was inserted
newKeyBuffer == [chains |-> <<>>, keys |-> EmptyMap]

\* the mutant of evictOldest: the newest chain is discarded
evictNewest(kb) ==
    [chains |-> SubSeq(kb.chains, 1, Len(kb.chains) - 1),
     keys |-> [d \in (DOMAIN kb.keys) \ {kb.chains[Len(kb.chains)]} |-> kb.keys[d]]]

\* the buffer without its oldest chain and that chain's whole key set
evictOldest(kb) ==
    [chains |-> Tail(kb.chains),
     keys |-> [d \in (DOMAIN kb.keys) \ {Head(kb.chains)} |-> kb.keys[d]]]

\* a new chain at the end of the buffer
addChain(kb, dhPub, msgNo, msgKey) ==
    [chains |-> Append(kb.chains, dhPub),
     keys |-> (dhPub :> (msgNo :> msgKey)) @@ kb.keys]

\* keyBuffer.insert: a key under a DH key the buffer holds joins that chain;
\* a key under another DH key starts a chain, and the oldest chain is
\* discarded when the buffer is full
insert(kb, dhPub, msgNo, msgKey) ==
    IF dhPub \in DOMAIN kb.keys
    THEN [kb EXCEPT !.keys[dhPub] = (msgNo :> msgKey) @@ @]
    ELSE IF Len(kb.chains) >= maxSkipChains
    THEN addChain(evictOldest(kb), dhPub, msgNo, msgKey)
    ELSE addChain(kb, dhPub, msgNo, msgKey)

\* keyBuffer.find
find(kb, dhPub, msgNo) ==
    IF dhPub \notin DOMAIN kb.keys THEN [msgKey |-> Nil, err |-> TRUE]
    ELSE IF msgNo \notin DOMAIN kb.keys[dhPub] THEN [msgKey |-> Nil, err |-> TRUE]
    ELSE [msgKey |-> kb.keys[dhPub][msgNo], err |-> FALSE]

\* ------------------------------------------------------ ratchet wire header

\* header.marshal: dhPub, prevNo and msgNo in a fixed layout; a counter that
\* does not fit its field is an error
marshalHeader(h) ==
    IF h.PrevNo > maxHeaderNo \/ h.MsgNo > maxHeaderNo
    THEN [err |-> TRUE, data |-> Nil]
    ELSE [err |-> FALSE, data |-> <<"hdr", h.DhPub, h.PrevNo, h.MsgNo>>]

\* parseHeader
parseHeader(data) ==
    IF data # Nil /\ data[1] = "hdr"
    THEN [err |-> FALSE, header |-> [DhPub |-> data[2], PrevNo |-> data[3], MsgNo |-> data[4]]]
    ELSE [err |-> TRUE, header |-> NoHeader]

\* Encrypt as Session calls it: the marshalled header followed by the AEAD
\* ciphertext
EncryptWire(dr, plaintext, kp) ==
    Let(Encrypt(dr, plaintext, kp), LAMBDA e :
    Let(marshalHeader(e.header), LAMBDA h :
        IF e.err \/ h.err
        THEN [dr |-> e.dr, ciphertext |-> Nil, err |-> TRUE, gen |-> e.gen]
        ELSE [dr |-> e.dr, err |-> FALSE, gen |-> e.gen,
              ciphertext |-> <<h.data, e.ciphertext[1], e.ciphertext[2]>>]))

\* Decrypt as Session calls it: the header is parsed off the front.  Bytes
\* too few for a header, <<n>>, are refused; what follows a header is the
\* output of encrypt, or <<n>> for n bytes that are too few to be one.
DecryptWire(dr, ciphertext, kp) ==
    Let(IF Len(ciphertext) \in {2, 3}
        THEN parseHeader(ciphertext[1])
        ELSE parseHeader(Nil), LAMBDA h :
        IF h.err
        THEN [dr |-> dr, plaintext |-> "", err |-> TRUE, panic |-> FALSE, gen |-> FALSE]
        ELSE Decrypt(dr, h.header,
                     IF Len(ciphertext) = 3 THEN <<ciphertext[2], ciphertext[3]>>
                     ELSE ciphertext[2], kp))

\* ------------------------------------------------------------------- X3DH

\* ed25519.Sign / ed25519.Verify
edSign(idKey, message) == <<"sig", idKey[2], message>>

edVerify(idPub, message, sig) ==
    /\ idPub # Nil
    /\ idPub[1] = "idpub"
    /\ sig = <<"sig", idPub[2], message>>

\* x3dh.CreateNewSpk: an X25519 key pair, its public part signed
CreateNewSpk(idKey, kp) ==
    [spkPub |-> kp.pub, spkPriv |-> kp.priv, spkSig |-> edSign(idKey, kp.pub), err |-> FALSE]

\* the KDF over the three DH outputs
x3dhKdf(dh1, dh2, dh3) == <<"sk", dh1, dh2, dh3>>

\* the mutant of CreateInitialMessage: the signature is not verified
CreateInitialMessageUnsigned(idKey, peerIdPub, spkPub, spkSig, ek) ==
    LET Fail == [err |-> TRUE, sessKey |-> Nil, associatedData |-> Nil, ekPub |-> Nil]
        dh1 == dh(edToX(idKey), spkPub)
        dh2 == dh(ek.priv, edToX(peerIdPub))
        dh3 == dh(ek.priv, spkPub)
    IN IF dh1.err \/ dh2.err \/ dh3.err THEN Fail
       ELSE [err |-> FALSE, sessKey |-> x3dhKdf(dh1.out, dh2.out, dh3.out),
             associatedData |-> <<IdPub(idKey[2]), peerIdPub>>, ekPub |-> ek.pub]

\* x3dh.CreateInitialMessage: verifies the signed prekey, draws the
\* ephemeral key and derives the session key and the associated data
CreateInitialMessage(idKey, peerIdPub, spkPub, spkSig, ek) ==
    LET Fail == [err |-> TRUE, sessKey |-> Nil, associatedData |-> Nil, ekPub |-> Nil]
        dh1 == dh(edToX(idKey), spkPub)
        dh2 == dh(ek.priv, edToX(peerIdPub))
        dh3 == dh(ek.priv, spkPub)
    IN IF ~edVerify(peerIdPub, spkPub, spkSig) THEN Fail
       ELSE IF dh1.err \/ dh2.err \/ dh3.err THEN Fail
       ELSE [err |-> FALSE, sessKey |-> x3dhKdf(dh1.out, dh2.out, dh3.out),
             associatedData |-> <<IdPub(idKey[2]), peerIdPub>>, ekPub |-> ek.pub]

\* the mutant of ReceiveInitialMessage: the first two DH outputs change
\* places
ReceiveInitialMessageSwapped(idKey, peerIdPub, spkPriv, ekPub) ==
    LET Fail == [err |-> TRUE, sessKey |-> Nil, associatedData |-> Nil]
        dh1 == dh(spkPriv, edToX(peerIdPub))
        dh2 == dh(edToX(idKey), ekPub)
        dh3 == dh(spkPriv, ekPub)
    IN IF dh1.err \/ dh2.err \/ dh3.err THEN Fail
       ELSE [err |-> FALSE, sessKey |-> x3dhKdf(dh2.out, dh1.out, dh3.out),
             associatedData |-> <<peerIdPub, IdPub(idKey[2])>>]

\* the mutant of ReceiveInitialMessage: the associated data begin with the
\* own identity key, as in CreateInitialMessage
ReceiveInitialMessageOwnFirst(idKey, peerIdPub, spkPriv, ekPub) ==
    LET Fail == [err |-> TRUE, sessKey |-> Nil, associatedData |-> Nil]
        dh1 == dh(spkPriv, edToX(peerIdPub))
        dh2 == dh(edToX(idKey), ekPub)
        dh3 == dh(spkPriv, ekPub)
    IN IF dh1.err \/ dh2.err \/ dh3.err THEN Fail
       ELSE [err |-> FALSE, sessKey |-> x3dhKdf(dh1.out, dh2.out, dh3.out),
             associatedData |-> <<IdPub(idKey[2]), peerIdPub>>]

\* x3dh.ReceiveInitialMessage: the same three DH pairs from the other side
ReceiveInitialMessage(idKey, peerIdPub, spkPriv, ekPub) ==
    LET Fail == [err |-> TRUE, sessKey |-> Nil, associatedData |-> Nil]
        dh1 == dh(spkPriv, edToX(peerIdPub))
        dh2 == dh(edToX(idKey), ekPub)
        dh3 == dh(spkPriv, ekPub)
    IN IF dh1.err \/ dh2.err \/ dh3.err THEN Fail
       ELSE [err |-> FALSE, sessKey |-> x3dhKdf(dh1.out, dh2.out, dh3.out),
             associatedData |-> <<peerIdPub, IdPub(idKey[2])>>]

\* ------------------------------------------------------------ message codec

base64Encode(data) == <<"b64", data>>

base64Decode(text) ==
    IF text # Nil /\ text[1] = "b64" THEN [err |-> FALSE, data |-> text[2]]
    ELSE [err |-> TRUE, data |-> Nil]

\* MarshalBinary of the four message types
offerBody(idKey, spKey, spSig) == <<"offer", idKey, spKey, spSig>>

ackBody(idKey, eKey, cipher) == <<"ack", idKey, eKey, cipher>>

dataBody(ciphertext) == <<"data", ciphertext>>

closeBody == <<"close", 255>>

\* marshalMessage: Prefix, the type digit, the base64 body, Suffix
marshalMessage(t, body) == <<Prefix, t, base64Encode(body), Suffix>>

\* UnmarshalBinary of the type the digit names: the body's length must fit
\* (offer 128 bytes, acknowledge more than 64, close the byte 0xff)
unmarshalBinary(t, data) ==
    IF data = Nil THEN t = sessData
    ELSE IF t = sessOffer THEN data[1] = "offer"
    ELSE IF t = sessAck THEN data[1] = "ack"
    ELSE IF t = sessData THEN TRUE
    ELSE data = closeBody

\* unmarshalMessage
unmarshalMessage(in) ==
    LET Fail == [err |-> TRUE, t |-> 0, m |-> Nil] IN
    IF Len(in) # 4 THEN Fail
    ELSE IF in[1] # Prefix \/ in[4] # Suffix THEN Fail
    ELSE IF in[2] \notin {sessOffer, sessAck, sessData, sessClose} THEN Fail
    ELSE Let(base64Decode(in[3]), LAMBDA d :
         IF d.err THEN Fail
         ELSE IF ~unmarshalBinary(in[2], d.data) THEN [err |-> TRUE, t |-> in[2], m |-> Nil]
         ELSE [err |-> FALSE, t |-> in[2], m |-> d.data])

\* the type digit of an envelope, 0 for bytes that are none
MsgType(m) == IF Len(m) = 4 THEN m[2] ELSE 0

\* ------------------------------------------- message codec, byte by byte

\* A text is a sequence of character codes, a byte string a sequence of
\* numbers below 256.  Prefix and Suffix as character codes:
PrefixText == <<33, 88, 79, 33>>

SuffixText == <<33, 79, 88, 33>>

\* strings.HasPrefix / strings.HasSuffix
HasPrefix(in, pre) ==
    /\ Len(in) >= Len(pre)
    /\ SubSeq(in, 1, Len(pre)) = pre

HasSuffix(in, suf) ==
    /\ Len(in) >= Len(suf)
    /\ SubSeq(in, Len(in) - Len(suf) + 1, Len(in)) = suf

\* the URL alphabet in place of the standard one: '-' and '_' for 62 and 63
encodeUrl(v) ==
    IF v < 26 THEN 65 + v
    ELSE IF v < 52 THEN 71 + v
    ELSE IF v < 62 THEN v - 4
    ELSE IF v = 62 THEN 45 ELSE 95

\* base64.StdEncoding: the character of a 6-bit value (A-Z a-z 0-9 + /)
encodeStd(v) ==
    IF v < 26 THEN 65 + v
    ELSE IF v < 52 THEN 71 + v
    ELSE IF v < 62 THEN v - 4
    ELSE IF v = 62 THEN 43 ELSE 47

\* the 6-bit value of a character, 255 for a character outside the alphabet
decodeMap(c) ==
    IF c \in 65..90 THEN c - 65
    ELSE IF c \in 97..122 THEN c - 71
    ELSE IF c \in 48..57 THEN c + 4
    ELSE IF c = 43 THEN 62
    ELSE IF c = 47 THEN 63
    ELSE 255

\* the byte at index i, 0 beyond the end
byteAt(src, i) == IF i <= Len(src) THEN src[i] ELSE 0

\* base64 encoding: three bytes make four characters, and the last quantum
\* is padded with '='.  Character i belongs to quantum (i - 1) \div 4.
EncodeToString(src) ==
    [i \in 1..(4 * ((Len(src) + 2) \div 3)) |->
        Let(3 * ((i - 1) \div 4), LAMBDA q :
            IF (i - 1) % 4 = 0 THEN encodeStd(src[q + 1] \div 4)
            ELSE IF (i - 1) % 4 = 1
            THEN encodeStd((src[q + 1] % 4) * 16 + byteAt(src, q + 2) \div 16)
            ELSE IF (i - 1) % 4 = 2
            THEN IF q + 2 > Len(src) THEN 61
                 ELSE encodeStd((src[q + 2] % 16) * 4 + byteAt(src, q + 3) \div 64)
            ELSE IF q + 3 > Len(src) THEN 61
                 ELSE encodeStd(src[q + 3] % 64))]

\* the number of '=' a text of whole quanta ends in, at most two
padding(s) ==
    IF Len(s) = 0 \/ s[Len(s)] # 61 THEN 0
    ELSE IF s[Len(s) - 1] # 61 THEN 1 ELSE 2

\* decoding a text without line breaks: whole quanta of four characters of
\* the alphabet, of which only the last may end in "=" or "==".  Three bytes
\* come from a quantum; the bits left over in a padded quantum are dropped.
decodeQuanta(s) ==
    IF \/ Len(s) % 4 # 0
       \/ \E i \in 1..(Len(s) - padding(s)) : decodeMap(s[i]) = 255
    THEN [err |-> TRUE, data |-> <<>>]
    ELSE [err |-> FALSE,
          data |-> [j \in 1..(3 * (Len(s) \div 4) - padding(s)) |->
              Let(4 * ((j - 1) \div 3), LAMBDA q :
                  IF (j - 1) % 3 = 0
                  THEN decodeMap(s[q + 1]) * 4 + decodeMap(s[q + 2]) \div 16
                  ELSE IF (j - 1) % 3 = 1
                  THEN (decodeMap(s[q + 2]) % 16) * 16 + decodeMap(s[q + 3]) \div 4
                  ELSE (decodeMap(s[q + 3]) % 4) * 64 + decodeMap(s[q + 4]))]]

\* the text without carriage returns and line feeds
dropNewlines(s) == SelectSeq(s, LAMBDA c : c # 10 /\ c # 13)

\* base64.StdEncoding.DecodeString: line feeds and carriage returns are
\* ignored wherever they stand
DecodeString(s) == decodeQuanta(dropNewlines(s))

\* copy(dst, src) into a zeroed dst of n bytes
copyInto(n, src) == [i \in 1..n |-> IF i <= Len(src) THEN src[i] ELSE 0]

\* the four message structs
offerMessage(idKey, spKey, spSig) ==
    [type |-> "offerMessage", idKey |-> idKey, spKey |-> spKey, spSig |-> spSig]

ackMessage(idKey, eKey, cipher) ==
    [type |-> "ackMessage", idKey |-> idKey, eKey |-> eKey, cipher |-> cipher]

dataMessage(data) == [type |-> "dataMessage", data |-> data]

closeMessage(data) == [type |-> "closeMessage", data |-> data]

\* MarshalBinary of the struct's type
MarshalBinary(m) ==
    IF m.type = "offerMessage"
    THEN copyInto(32, m.idKey) \o copyInto(32, m.spKey) \o copyInto(64, m.spSig)
    ELSE IF m.type = "ackMessage"
    THEN copyInto(32, m.idKey) \o copyInto(32, m.eKey) \o m.cipher
    ELSE m.data

NoMessage == [type |-> "none"]

offerUnmarshalBinary(data) ==
    IF Len(data) # 32 + 32 + 64 THEN [err |-> TRUE, m |-> NoMessage]
    ELSE [err |-> FALSE,
          m |-> offerMessage(SubSeq(data, 1, 32), SubSeq(data, 33, 64), SubSeq(data, 65, 128))]

\* a payload of 64 bytes, with no ciphertext, passes
ackUnmarshalBinaryOffByOne(data) ==
    IF Len(data) < 32 + 32 THEN [err |-> TRUE, m |-> NoMessage]
    ELSE [err |-> FALSE,
          m |-> ackMessage(SubSeq(data, 1, 32), SubSeq(data, 33, 64), SubSeq(data, 65, Len(data)))]

ackUnmarshalBinary(data) ==
    IF Len(data) <= 32 + 32 THEN [err |-> TRUE, m |-> NoMessage]
    ELSE [err |-> FALSE,
          m |-> ackMessage(SubSeq(data, 1, 32), SubSeq(data, 33, 64), SubSeq(data, 65, Len(data)))]

dataUnmarshalBinary(data) == [err |-> FALSE, m |-> dataMessage(data)]

closeUnmarshalBinary(data) ==
    IF data # <<255>> THEN [err |-> TRUE, m |-> NoMessage]
    ELSE [err |-> FALSE, m |-> closeMessage(data)]

\* marshalMessage on texts: Prefix, the type as a decimal digit, the base64
\* of the marshalled struct, Suffix
marshalMessageText(t, m) ==
    PrefixText \o <<48 + t>> \o EncodeToString(MarshalBinary(m)) \o SuffixText

\* unmarshalMessage on texts.  An index or a slice out of range is a panic.
unmarshalMessageText(in) ==
    LET Fail(t) == [err |-> TRUE, panic |-> FALSE, t |-> t, m |-> NoMessage]
        Panic == [err |-> FALSE, panic |-> TRUE, t |-> 0, m |-> NoMessage]
    IN
    IF ~HasPrefix(in, PrefixText) \/ ~HasSuffix(in, SuffixText) THEN Fail(0)
    ELSE IF Len(in) < Len(PrefixText) + 1 THEN Panic
    ELSE Let((in[Len(PrefixText) + 1] - 48) % 256, LAMBDA t :
         IF t \notin {sessOffer, sessAck, sessData, sessClose} THEN Fail(t)
         ELSE IF Len(PrefixText) + 1 > Len(in) - Len(SuffixText) THEN Panic
         ELSE Let(DecodeString(SubSeq(in, Len(PrefixText) + 2, Len(in) - Len(SuffixText))), LAMBDA d :
              IF d.err THEN Fail(t)
              ELSE Let(IF t = sessOffer THEN offerUnmarshalBinary(d.data)
                       ELSE IF t = sessAck THEN ackUnmarshalBinary(d.data)
                       ELSE IF t = sessData THEN dataUnmarshalBinary(d.data)
                       ELSE closeUnmarshalBinary(d.data), LAMBDA u :
                   [err |-> u.err, panic |-> FALSE, t |-> t, m |-> u.m])))

\* ---------------------------------------------------------------- Session

VARIABLES
    sess,    \* per party: spkPub, spkPriv and the doubleRatchet pointer
    accept,  \* per party: whether its VerifyPeer accepts the peer's identity key
    rng,     \* per party: the number of key pairs drawn so far
    wire,    \* every message a party has emitted, in order
    ret,     \* the last call: its input, its return values, the session before
    hist,    \* what the run so far has been (observation only)
    kb,      \* a key buffer on its own, its last call and what was inserted
    call     \* a function on its own: its last call, the input and the result

vars == <<sess, accept, rng, wire, ret, hist, kb, call>>

\* a zero Session: nil SPK, nil doubleRatchet pointer
FreshSession == [spkPub |-> Nil, spkPriv |-> Nil, doubleRatchet |-> Nil]

\* the mutant of VerifyPeer: every key is accepted
VerifyPeerAny(p, peer) == TRUE

\* Session.VerifyPeer as the tests configure it: the peer's key or nothing
VerifyPeer(p, peer) == accept[p] /\ peer = IdPub(Peer(p))

NoResult(s) ==
    [sess |-> s, err |-> TRUE, isEstablished |-> FALSE, isClosed |-> FALSE,
     plaintext |-> "", out |-> Nil, gen |-> 0, panic |-> FALSE]

\* Session.Offer
SessionOffer(s, p, kp) ==
    Let(CreateNewSpk(IdentityKey(p), kp), LAMBDA spk :
        [NoResult([s EXCEPT !.spkPub = spk.spkPub, !.spkPriv = spk.spkPriv]) EXCEPT
            !.err = FALSE, !.gen = 1,
            !.out = marshalMessage(sessOffer, offerBody(IdPub(p), spk.spkPub, spk.spkSig))])

\* Acknowledge once the peer is accepted: X3DH, the active ratchet, the
\* encrypted initial payload
acknowledgeVerified(s, p, offer, ek, kp) ==
    Let(CreateInitialMessage(IdentityKey(p), offer[2], offer[3], offer[4], ek), LAMBDA x :
        IF x.err THEN NoResult(s)
        ELSE Let(EncryptWire(CreateActive(x.sessKey, x.associatedData, offer[3], kp),
                             InitialPayload, kp), LAMBDA e :
             IF e.err THEN [NoResult([s EXCEPT !.doubleRatchet = <<e.dr>>]) EXCEPT !.gen = 2]
             ELSE [NoResult([s EXCEPT !.doubleRatchet = <<e.dr>>]) EXCEPT
                      !.err = FALSE, !.gen = 2,
                      !.out = marshalMessage(sessAck,
                                  ackBody(IdPub(p), x.ekPub, e.ciphertext))]))

\* the mutant of Acknowledge: the peer's key is not verified
SessionAcknowledgeNoVerify(s, p, offerMsg, ek, kp) ==
    Let(unmarshalMessage(offerMsg), LAMBDA u :
        IF u.err \/ u.t # sessOffer THEN NoResult(s)
        ELSE acknowledgeVerified(s, p, u.m, ek, kp))

\* Session.Acknowledge
SessionAcknowledge(s, p, offerMsg, ek, kp) ==
    Let(unmarshalMessage(offerMsg), LAMBDA u :
        IF u.err \/ u.t # sessOffer THEN NoResult(s)
        ELSE IF ~VerifyPeer(p, u.m[2]) THEN NoResult(s)
        ELSE acknowledgeVerified(s, p, u.m, ek, kp))

\* the mutant of receiveAckDecrypt: the SPK is kept
receiveAckKeepSpk(s, ack, dr, kp) ==
    Let(DecryptWire(dr, ack[4], kp), LAMBDA d :
        [NoResult([s EXCEPT !.doubleRatchet = <<d.dr>>]) EXCEPT
            !.err = d.err, !.gen = IF d.gen THEN 1 ELSE 0, !.isEstablished = ~d.err,
            !.panic = d.panic])

\* receiveAck from the passive ratchet on: the pointer is assigned and the
\* SPK dropped, then the initial payload is decrypted
receiveAckDecrypt(s, ack, dr, kp) ==
    Let(DecryptWire(dr, ack[4], kp), LAMBDA d :
        [NoResult([s EXCEPT !.doubleRatchet = <<d.dr>>, !.spkPub = Nil,
                            !.spkPriv = Nil]) EXCEPT
            !.err = d.err, !.gen = IF d.gen THEN 1 ELSE 0, !.isEstablished = ~d.err,
            !.panic = d.panic])

\* the mutant of receiveAck: the peer's key is verified after the ratchet is
\* built and the SPK dropped
receiveAckLateVerify(s, p, ack, kp) ==
    IF s.doubleRatchet # Nil THEN NoResult(s)
    ELSE Let(ReceiveInitialMessage(IdentityKey(p), ack[2], s.spkPriv, ack[3]), LAMBDA x :
         IF x.err THEN NoResult(s)
         ELSE IF ~VerifyPeer(p, ack[2])
              THEN NoResult([s EXCEPT !.spkPub = Nil, !.spkPriv = Nil,
                               !.doubleRatchet = <<CreatePassive(x.sessKey, x.associatedData,
                                                                 s.spkPub, s.spkPriv)>>])
              ELSE receiveAckDecrypt(s, ack, CreatePassive(x.sessKey, x.associatedData,
                                                           s.spkPub, s.spkPriv), kp))

\* Session.receiveAck
receiveAck(s, p, ack, kp) ==
    IF s.doubleRatchet # Nil THEN NoResult(s)
    ELSE IF ~VerifyPeer(p, ack[2]) THEN NoResult(s)
    ELSE Let(ReceiveInitialMessage(IdentityKey(p), ack[2], s.spkPriv, ack[3]), LAMBDA x :
         IF x.err THEN NoResult(s)
         ELSE receiveAckDecrypt(s, ack, CreatePassive(x.sessKey, x.associatedData,
                                                      s.spkPub, s.spkPriv), kp))

\* the mutant of receiveData: a decrypted message also reports isEstablished
receiveDataFlagged(s, data, kp) ==
    IF s.doubleRatchet = Nil THEN NoResult(s)
    ELSE Let(DecryptWire(s.doubleRatchet[1],
                         IF data # Nil /\ data[1] = "data" THEN data[2] ELSE Nil, kp),
             LAMBDA d :
             [NoResult([s EXCEPT !.doubleRatchet = <<d.dr>>]) EXCEPT
                 !.err = d.err, !.plaintext = d.plaintext, !.isEstablished = ~d.err,
                 !.gen = IF d.gen THEN 1 ELSE 0, !.panic = d.panic])

\* Session.receiveData
receiveData(s, data, kp) ==
    IF s.doubleRatchet = Nil THEN NoResult(s)
    ELSE Let(DecryptWire(s.doubleRatchet[1],
                         IF data # Nil /\ data[1] = "data" THEN data[2] ELSE Nil, kp),
             LAMBDA d :
             [NoResult([s EXCEPT !.doubleRatchet = <<d.dr>>]) EXCEPT
                 !.err = d.err, !.plaintext = d.plaintext,
                 !.gen = IF d.gen THEN 1 ELSE 0, !.panic = d.panic])

\* the mutant of Receive: a message of any other type is ignored in silence
SessionReceiveLenient(s, p, msg, kp) ==
    Let(unmarshalMessage(msg), LAMBDA u :
        IF u.err THEN NoResult(s)
        ELSE IF u.t = sessAck THEN receiveAck(s, p, u.m, kp)
        ELSE IF u.t = sessData THEN receiveData(s, u.m, kp)
        ELSE IF u.t = sessClose THEN [NoResult(s) EXCEPT !.err = FALSE, !.isClosed = TRUE]
        ELSE [NoResult(s) EXCEPT !.err = FALSE])

\* the mutant of Receive: a close message is refused by a session that
\* holds no ratchet
SessionReceiveCloseStrict(s, p, msg, kp) ==
    Let(unmarshalMessage(msg), LAMBDA u :
        IF u.err THEN NoResult(s)
        ELSE IF u.t = sessAck THEN receiveAck(s, p, u.m, kp)
        ELSE IF u.t = sessData THEN receiveData(s, u.m, kp)
        ELSE IF u.t = sessClose /\ s.doubleRatchet # Nil
             THEN [NoResult(s) EXCEPT !.err = FALSE, !.isClosed = TRUE]
        ELSE NoResult(s))

\* Session.Receive
SessionReceive(s, p, msg, kp) ==
    Let(unmarshalMessage(msg), LAMBDA u :
        IF u.err THEN NoResult(s)
        ELSE IF u.t = sessAck THEN receiveAck(s, p, u.m, kp)
        ELSE IF u.t = sessData THEN receiveData(s, u.m, kp)
        ELSE IF u.t = sessClose THEN [NoResult(s) EXCEPT !.err = FALSE, !.isClosed = TRUE]
        ELSE NoResult(s))

\* Send on a session that has a ratchet
sendEncrypted(s, plaintext, kp) ==
    Let(EncryptWire(s.doubleRatchet[1], plaintext, kp), LAMBDA e :
        IF e.err
        THEN [NoResult([s EXCEPT !.doubleRatchet = <<e.dr>>]) EXCEPT
                 !.gen = IF e.gen THEN 1 ELSE 0]
        ELSE [NoResult([s EXCEPT !.doubleRatchet = <<e.dr>>]) EXCEPT
                 !.err = FALSE, !.gen = IF e.gen THEN 1 ELSE 0,
                 !.out = marshalMessage(sessData, dataBody(e.ciphertext))])

\* the mutant of Send: a session without a ratchet reports success
SessionSendNoCheck(s, plaintext, kp) ==
    IF s.doubleRatchet = Nil THEN [NoResult(s) EXCEPT !.err = FALSE]
    ELSE sendEncrypted(s, plaintext, kp)

\* Session.Send
SessionSend(s, plaintext, kp) ==
    IF s.doubleRatchet = Nil THEN NoResult(s)
    ELSE sendEncrypted(s, plaintext, kp)

\* the mutant of Close: the close message is emitted, the session kept
SessionCloseKeepRatchet(s) ==
    [NoResult(s) EXCEPT !.err = FALSE, !.out = marshalMessage(sessClose, closeBody)]

\* the mutant of Close: the ratchet is dropped, the SPK kept
SessionCloseKeepSpk(s) ==
    [NoResult([s EXCEPT !.doubleRatchet = Nil]) EXCEPT
        !.err = FALSE, !.out = marshalMessage(sessClose, closeBody)]

\* Session.Close
SessionClose(s) ==
    [NoResult([s EXCEPT !.spkPub = Nil, !.spkPriv = Nil, !.doubleRatchet = Nil]) EXCEPT
        !.err = FALSE, !.out = marshalMessage(sessClose, closeBody)]

\* ------------------------------------------------------------- the system

Initiator == "alice"

Responder == "bob"

Indices(t) == {i \in 1..Len(wire) : wire[i].type = t}

FromPeer(p) == {i \in 1..Len(wire) : wire[i].from = Peer(p)}

\* the peer's data messages that p has not yet decrypted
Pending(p) == {i \in Indices(sessData) \cap FromPeer(p) : i \notin hist.got[p]}

Min(S) == CHOOSE x \in S : \A y \in S : x <= y

\* the peer's data messages sent before message idx and after every message
\* p has decrypted: those lost if idx is delivered now
Dropped(p, idx) ==
    {i \in Indices(sessData) \cap FromPeer(p) :
        i < idx /\ \A j \in hist.got[p] : j < i}

\* calls beyond the plain run
Extra ==
    LET more(n) == IF n > 1 THEN n - 1 ELSE 0 IN
    hist.forged + Cardinality(Indices(sessClose))
        + more(Cardinality(Indices(sessOffer))) + more(Cardinality(Indices(sessAck)))

EveKey == <<"pub", "eve", 1>>

JunkCipher(h) == <<marshalHeader(h).data, <<"junk">>, <<"junk">>>>

\* the ciphertext inside a data envelope
CipherOf(msg) == msg[3][2][2]

\* what an attacker without any key can hand to p's Receive: bytes that are
\* no envelope, a close, an acknowledge in the peer's name with its own
\* ephemeral key, data under an unknown DH key, and a sent data message with
\* a replaced MAC
Forgeries(p) ==
    {<<"junk">>,
     marshalMessage(sessClose, closeBody),
     marshalMessage(sessAck, ackBody(IdPub(Peer(p)), EveKey,
         JunkCipher([DhPub |-> EveKey, PrevNo |-> 0, MsgNo |-> 0]))),
     marshalMessage(sessData, dataBody(
         JunkCipher([DhPub |-> EveKey, PrevNo |-> 0, MsgNo |-> 0])))}
    \cup {marshalMessage(sessData, dataBody(
              <<CipherOf(wire[i].msg)[1], CipherOf(wire[i].msg)[2], <<"junk">>>>)) :
          i \in Indices(sessData) \cap FromPeer(p)}

\* the offers in the peer's name an attacker can hand to p's Acknowledge:
\* its own prekey, signed with its own identity key or under the signature
\* of a sent offer, and the prekey of a sent offer under another signature
ForgedOffers(p) ==
    {marshalMessage(sessOffer,
         offerBody(IdPub(Peer(p)), EveKey, edSign(IdentityKey("eve"), EveKey)))}
    \cup UNION {{marshalMessage(sessOffer,
                     offerBody(IdPub(Peer(p)), EveKey, wire[i].msg[3][2][4])),
                 marshalMessage(sessOffer,
                     offerBody(IdPub(Peer(p)), wire[i].msg[3][2][3],
                               edSign(IdentityKey("eve"), wire[i].msg[3][2][3])))} :
                i \in Indices(sessOffer) \cap FromPeer(p)}

\* the plain run: Offer, Acknowledge of the offer, Receive of the
\* acknowledgement, then Sends and Receives of the peer's undelivered data
NextStage(op, p, idx) ==
    LET t == IF idx > 0 THEN wire[idx].type ELSE 0 IN
    IF hist.stage = "start" /\ op = "Offer" /\ p = Initiator THEN "offered"
    ELSE IF hist.stage = "offered" /\ op = "Acknowledge" /\ p = Responder /\ t = sessOffer
         THEN "acked"
    ELSE IF hist.stage = "acked" /\ op = "Receive" /\ p = Initiator /\ t = sessAck
         THEN "established"
    ELSE IF hist.stage = "established" /\ op = "Send" THEN "established"
    ELSE IF /\ hist.stage = "established" /\ op = "Receive" /\ t = sessData
            /\ idx \in Pending(p)
         THEN "established"
    ELSE "dirty"

\* the observation of one call: r is the handler's result
Observe(op, p, r, msg, idx) ==
    LET stage == NextStage(op, p, idx)
        isData == idx > 0 /\ wire[idx].type = sessData
    IN
    /\ ret' = [op |-> op, who |-> p, msg |-> msg, idx |-> idx, err |-> r.err,
               isEstablished |-> r.isEstablished, isClosed |-> r.isClosed,
               plaintext |-> r.plaintext, out |-> r.out, pre |-> sess[p],
               panic |-> r.panic,
               replay |-> idx \in hist.got[p],
               dropped |-> Cardinality(Dropped(p, idx))]
    /\ hist' = [stage |-> stage,
                \* every data message so far was delivered in sending order
                inorder |-> /\ stage # "dirty"
                            /\ hist.inorder
                            /\ (op = "Receive" /\ isData) => idx = Min(Pending(p)),
                \* every data message delivered so far was sent after all
                \* those delivered before it
                forward |-> /\ stage # "dirty"
                            /\ hist.forward
                            /\ (op = "Receive" /\ isData) =>
                                  \A j \in hist.got[p] : j < idx,
                \* every Send so far was made with nothing left to receive
                batched |-> /\ stage # "dirty"
                            /\ hist.batched
                            /\ (op = "Send") => Pending(p) = {},
                forged |-> hist.forged + (IF idx = 0 /\ msg # Nil THEN 1 ELSE 0),
                got |-> IF op = "Receive" /\ isData /\ ~r.err
                        THEN [hist.got EXCEPT ![p] = @ \cup {idx}] ELSE hist.got,
                \* how p's session was last closed, until p next processes a
                \* handshake message
                closed |-> IF op = "Close" THEN [hist.closed EXCEPT ![p] = "Close"]
                           ELSE IF op = "Receive" /\ r.isClosed /\ ~r.err
                                   /\ hist.closed[p] = "no"
                                THEN [hist.closed EXCEPT ![p] = "Receive"]
                           ELSE IF \/ op = "Acknowledge" /\ MsgType(msg) = sessOffer
                                   \/ op = "Receive" /\ MsgType(msg) = sessAck
                                THEN [hist.closed EXCEPT ![p] = "no"]
                                ELSE hist.closed]

\* the effect of one call on the session, the entropy source and the wire
Effect(op, p, r, msg, idx, plaintext) ==
    /\ sess' = [sess EXCEPT ![p] = r.sess]
    /\ rng' = [rng EXCEPT ![p] = @ + r.gen]
    /\ wire' = IF r.out = Nil THEN wire
               ELSE Append(wire, [from |-> p, type |-> r.out[2], msg |-> r.out,
                                  plaintext |-> plaintext])
    /\ Observe(op, p, r, msg, idx)

\* one call of a caller that keeps no state of its own
Commit(op, p, r, msg, idx, plaintext) ==
    /\ Effect(op, p, r, msg, idx, plaintext)
    /\ UNCHANGED <<accept, kb, call>>

NoCall ==
    [op |-> "none", who |-> Initiator, msg |-> Nil, idx |-> 0, err |-> FALSE,
     isEstablished |-> FALSE, isClosed |-> FALSE, plaintext |-> "",
     panic |-> FALSE, out |-> Nil, pre |-> FreshSession, replay |-> FALSE, dropped |-> 0]

\* a new key buffer: no DH key seen, nothing inserted, no call made
NoKeyBuffer ==
    [buf |-> newKeyBuffer, seen |-> 0, extra |-> 0, clock |-> 0,
     born |-> EmptyMap, inserted |-> {},
     last |-> [op |-> "none", dhPub |-> 0, msgNo |-> 0, msgKey |-> Nil,
               err |-> FALSE, pre |-> newKeyBuffer]]

\* no function called yet
NoFunction ==
    [op |-> "none", t |-> 0, m |-> NoMessage, text |-> <<>>, in |-> <<>>,
     res |-> [err |-> FALSE, panic |-> FALSE, t |-> 0, m |-> NoMessage]]

Init ==
    /\ sess = [p \in Party |-> FreshSession]
    /\ accept \in [Party -> BOOLEAN]
    /\ rng = [p \in Party |-> 0]
    /\ wire = <<>>
    /\ ret = NoCall
    /\ hist = [stage |-> "start", inorder |-> TRUE, forward |-> TRUE,
               batched |-> TRUE, forged |-> 0,
               got |-> [p \in Party |-> {}], closed |-> [p \in Party |-> "no"]]
    /\ kb = NoKeyBuffer
    /\ call = NoFunction

Offer(p) ==
    Commit("Offer", p, SessionOffer(sess[p], p, dhKeyPair(p, rng[p] + 1)), Nil, 0, "")

Acknowledge(p, i) ==
    Commit("Acknowledge", p,
           SessionAcknowledge(sess[p], p, wire[i].msg,
                              dhKeyPair(p, rng[p] + 1), dhKeyPair(p, rng[p] + 2)),
           wire[i].msg, i, "")

AcknowledgeForged(p, m) ==
    Commit("Acknowledge", p,
           SessionAcknowledge(sess[p], p, m,
                              dhKeyPair(p, rng[p] + 1), dhKeyPair(p, rng[p] + 2)),
           m, 0, "")

Receive(p, i) ==
    Commit("Receive", p, SessionReceive(sess[p], p, wire[i].msg, dhKeyPair(p, rng[p] + 1)),
           wire[i].msg, i, "")

ReceiveForged(p, m) ==
    Commit("Receive", p, SessionReceive(sess[p], p, m, dhKeyPair(p, rng[p] + 1)), m, 0, "")

Send(p, plaintext) ==
    Commit("Send", p, SessionSend(sess[p], plaintext, dhKeyPair(p, rng[p] + 1)),
           Nil, 0, plaintext)

Close(p) ==
    Commit("Close", p, SessionClose(sess[p]), Nil, 0, "")

\* the bounds of a behaviour, on the state a step leads to
Within(sends, keys, extra) ==
    /\ Cardinality({i \in 1..Len(wire') : wire'[i].type = sessData}) <= sends
    /\ \A p \in Party : rng'[p] <= keys
    /\ Extra' <= extra

Bounded == Within(MaxSend, MaxKeys, MaxExtra)

\* The two parties call the API in any order, on any message the peer has
\* emitted (in any order, any number of times, or never) and on forged input.
\* The payload plays no part in the lifecycle: SpecRatchet varies it.
Next ==
    \/ \E p \in {Initiator} : Offer(p) /\ Bounded
    \/ \E p \in {Responder} : \E i \in FromPeer(p) : Acknowledge(p, i) /\ Bounded
    \/ \E p \in {Responder} : \E m \in ForgedOffers(p) : AcknowledgeForged(p, m) /\ Bounded
    \/ \E p \in Party : \E i \in FromPeer(p) : Receive(p, i) /\ Bounded
    \/ \E p \in Party : \E m \in Forgeries(p) : ReceiveForged(p, m) /\ Bounded
    \/ \E p \in Party : Send(p, "hello") /\ Bounded
    \/ \E p \in Party : Close(p) /\ Bounded

Spec == Init /\ [][Next]_vars

\* The plain handshake, then either a dialogue of a few data messages, each
\* delivered in any order, any number of times, or never; or a burst of about
\* maxSkip messages by one party, a few of them delivered in any order.
InitRatchet == Init /\ accept = [p \in Party |-> TRUE]

Handshaken == hist.stage \notin {"start", "offered", "acked"}

DataSent == Cardinality(Indices(sessData))

BoundedRatchet == Within(MaxMsgs, MaxRatchetKeys, 0)

\* p may go on to a burst: every data message so far is p's, of the burst's
\* payload, and none has been delivered
Burst(p) ==
    /\ hist.stage = "established"
    /\ DataSent >= MaxMsgs
    /\ \A i \in Indices(sessData) : wire[i].from = p /\ wire[i].plaintext = "hello"
    /\ \A q \in Party : hist.got[q] = {}

\* the deliveries to p the bounds allow
Deliverable(p) ==
    \/ DataSent <= MaxMsgs
    \/ DataSent >= maxSkip /\ Cardinality(hist.got[p]) < MaxPick

NextRatchet ==
    \/ hist.stage = "start" /\ Offer(Initiator) /\ BoundedRatchet
    \/ hist.stage = "offered" /\ Acknowledge(Responder, 1) /\ BoundedRatchet
    \/ hist.stage = "acked" /\ Receive(Initiator, 2) /\ BoundedRatchet
    \/ /\ Handshaken
       /\ \E p \in Party : \E plaintext \in Plaintexts : Send(p, plaintext) /\ BoundedRatchet
    \/ \E p \in Party :
          Burst(p) /\ Send(p, "hello") /\ Within(maxSkip + 2, MaxRatchetKeys, 0)
    \/ /\ Handshaken
       /\ \E p \in Party : \E i \in Indices(sessData) \cap FromPeer(p) :
             Deliverable(p) /\ Receive(p, i) /\ Within(maxSkip + 2, MaxRatchetKeys, 0)

SpecRatchet == InitRatchet /\ [][NextRatchet]_vars

\* The plain handshake, then rounds of one run each: the initiator sends
\* maxSkip + 1 messages, the responder gets the last of them and none of those
\* before it, and replies.
FloodGap == Cardinality(Dropped(Responder, Len(wire) + 1))

BoundedFlood == Within(MaxRounds * (maxSkip + 2), MaxRounds + 3, 0)

NextFlood ==
    \/ hist.stage = "start" /\ Offer(Initiator) /\ BoundedFlood
    \/ hist.stage = "offered" /\ Acknowledge(Responder, 1) /\ BoundedFlood
    \/ hist.stage = "acked" /\ Receive(Initiator, 2) /\ BoundedFlood
    \/ /\ Handshaken
       /\ FloodGap <= maxSkip
       /\ Len(wire) \notin hist.got[Responder]
       /\ Pending(Initiator) = {}
       /\ Send(Initiator, "hello") /\ BoundedFlood
    \/ /\ Handshaken
       /\ wire[Len(wire)].from = Initiator
       /\ Cardinality(Dropped(Responder, Len(wire))) = maxSkip
       /\ Receive(Responder, Len(wire)) /\ BoundedFlood
    \/ /\ Handshaken
       /\ Len(wire) \in hist.got[Responder]
       /\ Send(Responder, "nice") /\ BoundedFlood
    \/ /\ Handshaken
       /\ Len(wire) \in Pending(Initiator)
       /\ Receive(Initiator, Len(wire)) /\ BoundedFlood

SpecFlood == InitRatchet /\ [][NextFlood]_vars

\* one bit of a number
FlipBit(n) == IF n % 2 = 0 THEN n + 1 ELSE n - 1

\* one bit of a public key: the key of nobody
FlipKey(k) == <<"pub", "flipped", Rank(k)>>

\* the bodies that differ in one bit from the body c of a sent data message
\* with the given plaintext: in the header's DH key, previous chain length or
\* message number, in the last AES block or in one before it, or in the MAC
BodyFlips(c, plaintext) ==
    {<<<<"hdr", FlipKey(c[1][2]), c[1][3], c[1][4]>>, c[2], c[3]>>,
     <<<<"hdr", c[1][2], FlipBit(c[1][3]), c[1][4]>>, c[2], c[3]>>,
     <<<<"hdr", c[1][2], c[1][3], FlipBit(c[1][4])>>, c[2], c[3]>>,
     <<c[1], <<"cbcflip", "last", c[2]>>, c[3]>>,
     <<c[1], c[2], <<"flip", c[3]>>>>}
    \cup (IF InnerFlippable(plaintext)
          THEN {<<c[1], <<"cbcflip", "inner", c[2]>>, c[3]>>}
          ELSE {})

\* the altered data messages that can be handed to p's Receive
Flips(p) ==
    UNION {{marshalMessage(sessData, dataBody(b)) :
                b \in BodyFlips(CipherOf(wire[i].msg), wire[i].plaintext)} :
           i \in Indices(sessData) \cap FromPeer(p)}

LongText == "Lorem ipsum dolor sit amet, consectetur adipiscing elit."

BoundedTamper == Within(MaxTamperMsgs, MaxRatchetKeys, MaxFlips)

\* The plain handshake, then data messages of one block or of two, each
\* delivered as sent or with one bit altered.
NextTamper ==
    \/ hist.stage = "start" /\ Offer(Initiator) /\ BoundedTamper
    \/ hist.stage = "offered" /\ Acknowledge(Responder, 1) /\ BoundedTamper
    \/ hist.stage = "acked" /\ Receive(Initiator, 2) /\ BoundedTamper
    \/ /\ Handshaken
       /\ \E p \in Party : \E plaintext \in {"hello", LongText} :
             Send(p, plaintext) /\ BoundedTamper
    \/ /\ Handshaken
       /\ \E p \in Party : \E i \in Indices(sessData) \cap FromPeer(p) :
             Receive(p, i) /\ BoundedTamper
    \/ /\ Handshaken
       /\ \E p \in Party : \E m \in Flips(p) : ReceiveForged(p, m) /\ BoundedTamper

SpecTamper == InitRatchet /\ [][NextTamper]_vars

\* the numbers of bytes left after the header of a cut data message: none,
\* one fewer than the HMAC, the HMAC's length, one more, and one fewer than
\* the HMAC and one AES block
RestLens ==
    {0, sha256Size - 1, sha256Size, sha256Size + 1, sha256Size + aesBlockSize - 1}

\* the bodies shorter than a header, one AES block and the HMAC that can be
\* made of the body c of a sent data message: no byte, one byte, and the
\* header, or the header with another DH key, followed by too few bytes
ShortBodies(c) ==
    {Nil, <<1>>}
    \cup {<<c[1], <<n>>>> : n \in RestLens}
    \cup {<<<<"hdr", FlipKey(c[1][2]), c[1][3], c[1][4]>>, <<n>>>> : n \in RestLens}

\* the cut data messages that can be handed to p's Receive
Cuts(p) ==
    {marshalMessage(sessData, dataBody(Nil))}
    \cup UNION {{marshalMessage(sessData, dataBody(b)) :
                     b \in ShortBodies(CipherOf(wire[i].msg))} :
                i \in Indices(sessData) \cap FromPeer(p)}

BoundedShort == Within(MaxShortMsgs, MaxRatchetKeys, MaxCuts)

\* The plain handshake, then data messages, each delivered as sent or cut
\* short; a data message without any byte can be delivered at any time.  A
\* panic ends the run.
NextShort ==
    \/ ~ret.panic /\ hist.stage = "start" /\ Offer(Initiator) /\ BoundedShort
    \/ ~ret.panic /\ hist.stage = "offered" /\ Acknowledge(Responder, 1) /\ BoundedShort
    \/ ~ret.panic /\ hist.stage = "acked" /\ Receive(Initiator, 2) /\ BoundedShort
    \/ /\ ~ret.panic
       /\ Handshaken
       /\ \E p \in Party : Send(p, "hello") /\ BoundedShort
    \/ /\ ~ret.panic
       /\ Handshaken
       /\ \E p \in Party : \E i \in Indices(sessData) \cap FromPeer(p) :
             Receive(p, i) /\ BoundedShort
    \/ /\ ~ret.panic
       /\ \E p \in Party : \E m \in Cuts(p) : ReceiveForged(p, m) /\ BoundedShort

SpecShort == InitRatchet /\ [][NextShort]_vars

\* the sessions of both parties hold nothing
Idle == \A p \in Party : sess[p] = FreshSession

\* the handshakes begun so far
Generation == Cardinality(Indices(sessOffer))

\* the latest offer: the messages after it belong to the current handshake
LastOffer == IF Indices(sessOffer) = {} THEN 0
             ELSE CHOOSE i \in Indices(sessOffer) : \A j \in Indices(sessOffer) : j <= i

Current(t) == {i \in Indices(t) : i > LastOffer}

\* Sessions that are used again: either party offers when both sessions hold
\* nothing, the peer acknowledges the offer, the offering party receives the
\* acknowledgement, data messages are sent by a party that has nothing left
\* to receive and delivered in sending order, and either party closes its
\* session at any time; a party told to close stops sending.
\* The last handshake is not closed.
NextReuse ==
    \/ /\ Idle
       /\ Generation < MaxHandshakes
       /\ \E p \in Party : Offer(p)
    \/ /\ wire # <<>>
       /\ wire[Len(wire)].type = sessOffer
       /\ \E p \in Party :
             /\ wire[Len(wire)].from = Peer(p)
             /\ sess[p] = FreshSession
             /\ Acknowledge(p, Len(wire))
    \/ /\ wire # <<>>
       /\ wire[Len(wire)].type = sessAck
       /\ \E p \in Party :
             /\ wire[Len(wire)].from = Peer(p)
             /\ sess[p].spkPriv # Nil
             /\ Receive(p, Len(wire))
    \/ /\ \A p \in Party : sess[p].doubleRatchet # Nil /\ hist.closed[p] = "no"
       /\ Cardinality(Current(sessData)) < MaxReuseMsgs
       /\ \E p \in Party : Current(sessData) \cap Pending(p) = {} /\ Send(p, "hello")
    \/ \E p \in Party : \E i \in Current(sessData) \cap Pending(p) :
          /\ sess[p].doubleRatchet # Nil
          /\ i = Min(Current(sessData) \cap Pending(p))
          /\ Receive(p, i)
    \/ \E p \in Party : \E i \in Current(sessClose) \cap FromPeer(p) :
          /\ sess[p] # FreshSession
          /\ hist.closed[p] = "no"
          /\ Receive(p, i)
    \/ /\ Generation < MaxHandshakes
       /\ \E p \in Party : sess[p] # FreshSession /\ Close(p)

SpecReuse == InitRatchet /\ [][NextReuse]_vars

\* the messages handed to Receive out of turn: bytes that are no envelope, a
\* close, an acknowledgement in the name of either party or of nobody with a
\* key of its own, and data under an unknown DH key
FuzzInputs ==
    {<<"junk">>,
     marshalMessage(sessClose, closeBody),
     marshalMessage(sessData, dataBody(
         JunkCipher([DhPub |-> EveKey, PrevNo |-> 0, MsgNo |-> 0])))}
    \cup {marshalMessage(sessAck, ackBody(IdPub(q), EveKey,
              JunkCipher([DhPub |-> EveKey, PrevNo |-> 0, MsgNo |-> 0]))) :
          q \in Party \cup {"eve"}}

\* the number of modes of the harness
FuzzModes == 8

\* the mode in which the message is handed in after n calls of the plain
\* run: mode 2 does so before and after Receive of the acknowledgement
FuzzSlot(n) == IF n <= 2 THEN n ELSE n - 1

\* the n-th call of the plain run, counted from 0, and its result
FuzzCall(n) ==
    LET a == Initiator
        b == Responder
        make(op, p, r, idx, plaintext) ==
            [op |-> op, who |-> p, r |-> r, idx |-> idx, plaintext |-> plaintext,
             msg |-> IF idx = 0 THEN Nil ELSE wire[idx].msg]
    IN
    IF n = 0 THEN make("Offer", a, SessionOffer(sess[a], a, dhKeyPair(a, rng[a] + 1)), 0, "")
    ELSE IF n = 1
    THEN make("Acknowledge", b,
              SessionAcknowledge(sess[b], b, wire[1].msg,
                                 dhKeyPair(b, rng[b] + 1), dhKeyPair(b, rng[b] + 2)), 1, "")
    ELSE IF n = 2
    THEN make("Receive", a, SessionReceive(sess[a], a, wire[2].msg, dhKeyPair(a, rng[a] + 1)),
              2, "")
    ELSE IF n = 3
    THEN make("Send", a, SessionSend(sess[a], "hello", dhKeyPair(a, rng[a] + 1)), 0, "hello")
    ELSE IF n = 4
    THEN make("Receive", b, SessionReceive(sess[b], b, wire[3].msg, dhKeyPair(b, rng[b] + 1)),
              3, "")
    ELSE IF n = 5 THEN make("Close", a, SessionClose(sess[a]), 0, "")
    ELSE IF n = 6
    THEN make("Receive", b, SessionReceive(sess[b], b, wire[4].msg, dhKeyPair(b, rng[b] + 1)),
              4, "")
    ELSE make("Close", b, SessionClose(sess[b]), 0, "")

\* the harness panics on this result of its n-th call
FuzzPanics(n, r) ==
    \/ r.err
    \/ n = 2 /\ (~r.isEstablished \/ r.isClosed \/ r.plaintext # "")
    \/ n = 4 /\ (r.isEstablished \/ r.isClosed)
    \/ n = 6 /\ (r.isEstablished \/ ~r.isClosed)

\* the harness is given its mode and its message
FuzzStart ==
    /\ call.op = "none"
    /\ \E mode \in 0..(FuzzModes - 1) : \E msg \in FuzzInputs :
          call' = [op |-> "Fuzz", mode |-> mode, msg |-> msg, done |-> 0,
                   given |-> 0, failed |-> FALSE]
    /\ UNCHANGED <<sess, accept, rng, wire, ret, hist, kb>>

\* the message is handed to the initiator's Receive, then to the responder's;
\* their results are dropped
FuzzGive ==
    /\ call.op = "Fuzz"
    /\ ~call.failed
    /\ call.mode = FuzzSlot(call.done)
    /\ call.given < 2
    /\ Let(IF call.given = 0 THEN Initiator ELSE Responder, LAMBDA p :
           Effect("Receive", p,
                  SessionReceive(sess[p], p, call.msg, dhKeyPair(p, rng[p] + 1)),
                  call.msg, 0, ""))
    /\ call' = [call EXCEPT !.given = @ + 1]
    /\ UNCHANGED <<accept, kb>>

\* the next call of the plain run; the harness panics on an error and on
\* flags other than the expected ones
FuzzStep ==
    /\ call.op = "Fuzz"
    /\ ~call.failed
    /\ call.done < FuzzModes
    /\ call.mode = FuzzSlot(call.done) => call.given = 2
    /\ Let(FuzzCall(call.done), LAMBDA c :
           /\ Effect(c.op, c.who, c.r, c.msg, c.idx, c.plaintext)
           /\ call' = [call EXCEPT !.done = @ + 1, !.given = 0,
                                   !.failed = FuzzPanics(call.done, c.r)])
    /\ UNCHANGED <<accept, kb>>

NextFuzz == FuzzStart \/ FuzzGive \/ FuzzStep

SpecFuzz == InitRatchet /\ [][NextFuzz]_vars

\* the deliveries made so far
NoDelivery == [op |-> "Once", given |-> {}]

\* a call of the plain handshake by a caller that notes its deliveries
OnceShake(n) ==
    /\ Let(FuzzCall(n), LAMBDA c : Effect(c.op, c.who, c.r, c.msg, c.idx, c.plaintext))
    /\ call' = NoDelivery
    /\ UNCHANGED <<accept, kb>>

OnceSend(p, plaintext) ==
    /\ Effect("Send", p, SessionSend(sess[p], plaintext, dhKeyPair(p, rng[p] + 1)),
              Nil, 0, plaintext)
    /\ UNCHANGED <<accept, kb, call>>

\* the delivery of a data message that was not delivered before
OnceReceive(p, i) ==
    /\ i \notin call.given
    /\ Effect("Receive", p, SessionReceive(sess[p], p, wire[i].msg, dhKeyPair(p, rng[p] + 1)),
              wire[i].msg, i, "")
    /\ call' = [call EXCEPT !.given = @ \cup {i}]
    /\ UNCHANGED <<accept, kb>>

\* The plain handshake, then a few data messages, each delivered at most
\* once, in any order.
NextOnce ==
    \/ hist.stage = "start" /\ OnceShake(0) /\ BoundedRatchet
    \/ hist.stage = "offered" /\ OnceShake(1) /\ BoundedRatchet
    \/ hist.stage = "acked" /\ OnceShake(2) /\ BoundedRatchet
    \/ /\ Handshaken
       /\ \E p \in Party : OnceSend(p, "hello") /\ BoundedRatchet
    \/ /\ Handshaken
       /\ \E p \in Party : \E i \in Indices(sessData) \cap FromPeer(p) :
             OnceReceive(p, i) /\ BoundedRatchet

SpecOnce == InitRatchet /\ [][NextOnce]_vars

\* ------------------------------------------------- a DH ratchet on its own

\* the owner of the ratchet, and the public keys a peer hands to it: keys of
\* the peer and nil, which is no key
DhrOwner == "alice"

PeerKeys == {dhKeyPair(Peer(DhrOwner), n).pub : n \in 1..MaxPeerKeys} \cup {Nil}

DhrRootKey == <<"sessKey">>

\* r := dhRatchetActive(peerDhPub)
DhrActive(peerDhPub) ==
    /\ call.op = "none"
    /\ call' = [op |-> "dhRatchetActive",
                r |-> dhRatchetActive(DhrRootKey, peerDhPub, dhKeyPair(DhrOwner, 1)),
                stored |-> peerDhPub, drawn |-> 1, steps |-> 0, initial |-> 0,
                used |-> {dhKeyPair(DhrOwner, 1).pub}]
    /\ UNCHANGED <<sess, accept, rng, wire, ret, hist, kb>>

\* r := dhRatchetPassive(dhPub, dhPriv), with a key pair made before
DhrPassive ==
    /\ call.op = "none"
    /\ call' = [op |-> "dhRatchetPassive",
                r |-> dhRatchetPassive(DhrRootKey, dhKeyPair(DhrOwner, 1).pub,
                                       dhKeyPair(DhrOwner, 1).priv),
                stored |-> Nil, drawn |-> 1, steps |-> 0, initial |-> 0,
                used |-> {dhKeyPair(DhrOwner, 1).pub}]
    /\ UNCHANGED <<sess, accept, rng, wire, ret, hist, kb>>

\* r.step(peerDhPub)
DhrStep(peerDhPub) ==
    /\ call.op \in {"dhRatchetActive", "dhRatchetPassive", "step"}
    /\ call.steps < MaxDhrSteps
    /\ Let(step(call.r, peerDhPub, dhKeyPair(DhrOwner, call.drawn + 1)), LAMBDA s :
           call' = [op |-> "step", r |-> s.r, stored |-> call.stored,
                    drawn |-> call.drawn + (IF s.gen THEN 1 ELSE 0),
                    steps |-> call.steps + 1,
                    \* the successful initial steps so far
                    initial |-> call.initial
                                + (IF /\ ~s.err
                                      /\ call.r.isActive
                                      /\ ~call.r.isInitialized THEN 1 ELSE 0),
                    used |-> call.used \cup {s.r.dhPub},
                    pre |-> call.r, before |-> call.used, arg |-> peerDhPub,
                    res |-> s])
    /\ UNCHANGED <<sess, accept, rng, wire, ret, hist, kb>>

NextDhRatchet ==
    \/ \E peerDhPub \in PeerKeys : DhrActive(peerDhPub)
    \/ DhrPassive
    \/ \E peerDhPub \in PeerKeys : DhrStep(peerDhPub)

SpecDhRatchet == InitRatchet /\ [][NextDhRatchet]_vars

\* A key buffer on its own. DH keys are random: only their equality matters,
\* so key d + 1 is first inserted after key d, and the keys looked up are
\* those inserted, the next one and key 0, which is never inserted. Further
\* keys are inserted under the DH keys the buffer holds.
MaxDhKeys == maxSkipChains + MaxEvict

KbKey(dhPub, msgNo) == <<"mk", dhPub, msgNo>>

\* kb.insert(dhPub, msgNo, msgKey)
KbInsert(dhPub, msgNo) ==
    /\ kb' = [buf |-> insert(kb.buf, dhPub, msgNo, KbKey(dhPub, msgNo)),
              seen |-> IF dhPub > kb.seen THEN dhPub ELSE kb.seen,
              extra |-> kb.extra + (IF dhPub > kb.seen THEN 0 ELSE 1),
              \* the chains started so far, and the number of each DH key's
              \* chain among them
              clock |-> kb.clock + (IF dhPub \in DOMAIN kb.buf.keys THEN 0 ELSE 1),
              born |-> IF dhPub \in DOMAIN kb.buf.keys THEN kb.born
                       ELSE (dhPub :> kb.clock + 1) @@ kb.born,
              inserted |-> kb.inserted \cup {<<dhPub, msgNo>>},
              last |-> [op |-> "insert", dhPub |-> dhPub, msgNo |-> msgNo,
                        msgKey |-> Nil, err |-> FALSE, pre |-> kb.buf]]
    /\ UNCHANGED <<sess, accept, rng, wire, ret, hist, call>>

\* kb.find(dhPub, msgNo)
KbFind(dhPub, msgNo) ==
    /\ kb' = [kb EXCEPT !.last = [op |-> "find", dhPub |-> dhPub, msgNo |-> msgNo,
                                  msgKey |-> find(kb.buf, dhPub, msgNo).msgKey,
                                  err |-> find(kb.buf, dhPub, msgNo).err,
                                  pre |-> kb.buf]]
    /\ UNCHANGED <<sess, accept, rng, wire, ret, hist, call>>

NextKeyBuffer ==
    \/ kb.seen < MaxDhKeys /\ KbInsert(kb.seen + 1, 0)
    \/ /\ kb.extra < MaxKbExtra
       /\ \E dhPub \in DOMAIN kb.buf.keys : \E msgNo \in 0..MaxKbMsgNo :
             KbInsert(dhPub, msgNo)
    \/ \E dhPub \in 0..Min({kb.seen + 1, MaxDhKeys}) : \E msgNo \in 0..MaxKbMsgNo :
          KbFind(dhPub, msgNo)

SpecKeyBuffer == InitRatchet /\ [][NextKeyBuffer]_vars

\* ------------------------------------------------------ X3DH on its own

\* the owners of identity keys
Owners == {"alice", "bob", "eve"}

\* Bob makes a signed prekey: CreateNewSpk(bobIdPriv)
X3dhNewSpk(bob, n) ==
    /\ call.op = "none"
    /\ call' = [op |-> "CreateNewSpk", bob |-> bob,
                spk |-> CreateNewSpk(IdentityKey(bob), dhKeyPair(bob, n))]
    /\ UNCHANGED <<sess, accept, rng, wire, ret, hist, kb>>

\* Alice, who holds the prekey and a signature of it by signer, makes the
\* initial message: CreateInitialMessage(aliceIdPriv, bobIdPub, spkPub, spkSig)
X3dhCreate(alice, k, signer) ==
    /\ call.op = "CreateNewSpk"
    /\ call' = [op |-> "CreateInitialMessage", bob |-> call.bob, spk |-> call.spk,
                alice |-> alice, signer |-> signer,
                init |-> CreateInitialMessage(IdentityKey(alice), IdPub(call.bob),
                            call.spk.spkPub,
                            edSign(IdentityKey(signer), call.spk.spkPub),
                            dhKeyPair(alice, k))]
    /\ UNCHANGED <<sess, accept, rng, wire, ret, hist, kb>>

\* Bob receives it: ReceiveInitialMessage(bobIdPriv, aliceIdPub, spkPriv, ekPub)
X3dhReceive ==
    /\ call.op = "CreateInitialMessage"
    /\ ~call.init.err
    /\ call' = [op |-> "ReceiveInitialMessage", bob |-> call.bob, spk |-> call.spk,
                alice |-> call.alice, signer |-> call.signer, init |-> call.init,
                recv |-> ReceiveInitialMessage(IdentityKey(call.bob), IdPub(call.alice),
                            call.spk.spkPriv, call.init.ekPub)]
    /\ UNCHANGED <<sess, accept, rng, wire, ret, hist, kb>>

\* TestX3dh for every pair of identity keys, one party's with itself
\* included, every signed prekey and every ephemeral key, and with a
\* signature that is not Bob's
NextX3dh ==
    \/ \E bob \in Owners : \E n \in 1..MaxSpk : X3dhNewSpk(bob, n)
    \/ /\ call.op = "CreateNewSpk"
       /\ \E alice \in Owners : \E k \in 1..MaxEk : X3dhCreate(alice, k, call.bob)
    \/ /\ call.op = "CreateNewSpk"
       /\ \E alice \in Owners : \E signer \in Owners \ {call.bob} :
             X3dhCreate(alice, 1, signer)
    \/ X3dhReceive

SpecX3dh == InitRatchet /\ [][NextX3dh]_vars

\* ----------------------------------------------- the message codec on its own

\* the bytes message bodies are made of: 251 and 255 encode to '+' and '/'
ByteVals == {0, 251, 255}

Fill(n, b) == [i \in 1..n |-> b]

\* the byte pattern of TestMessageMarshall: 1, 2, ..., 10, 1, 2, ...
Pattern(n) == [i \in 1..n |-> ((i - 1) % 10) + 1]

Keys(n) == {Fill(n, b) : b \in ByteVals} \cup {Pattern(n)}

Bodies == UNION {[1..n -> ByteVals] : n \in 0..MaxBody} \cup {Pattern(7)}

\* the type a struct is marshalled under
TypeOf(m) ==
    IF m.type = "offerMessage" THEN sessOffer
    ELSE IF m.type = "ackMessage" THEN sessAck
    ELSE IF m.type = "dataMessage" THEN sessData
    ELSE sessClose

\* a struct as the Session makes it: keys of 32 bytes, a signature of 64, a
\* ciphertext that is not empty, the close byte
WellFormed(m) ==
    IF m.type = "offerMessage"
    THEN Len(m.idKey) = 32 /\ Len(m.spKey) = 32 /\ Len(m.spSig) = 64
    ELSE IF m.type = "ackMessage"
    THEN Len(m.idKey) = 32 /\ Len(m.eKey) = 32 /\ Len(m.cipher) > 0
    ELSE IF m.type = "dataMessage" THEN TRUE
    ELSE m.data = <<255>>

\* the structs marshalled: well-formed ones of the four types, and a few
\* that are not (a short key, no ciphertext, another close byte)
Messages ==
    {offerMessage(i, k, g) : i \in Keys(32), k \in Keys(32), g \in Keys(64)}
    \cup {ackMessage(i, k, c) : i \in Keys(32), k \in Keys(32), c \in Bodies}
    \cup {dataMessage(d) : d \in Bodies}
    \cup {closeMessage(<<255>>), closeMessage(<<254>>), closeMessage(<<>>),
          closeMessage(<<255, 255>>)}
    \cup {offerMessage(Fill(31, 251), Pattern(32), Pattern(64)),
          offerMessage(Pattern(32), Pattern(32), Fill(65, 255))}

\* the body text of an envelope and its type digit
BodyText(in) == SubSeq(in, Len(PrefixText) + 2, Len(in) - Len(SuffixText))

Envelope(tag, body) == PrefixText \o <<tag>> \o body \o SuffixText

\* the texts an envelope turns into on the way: an affix damaged or cut,
\* another type digit, a character outside the alphabet, a character lost,
\* padding in front, a line break inside, and a body one byte shorter or
\* longer or cut to 64 bytes
Damaged(in) ==
    LET tag == in[Len(PrefixText) + 1]
        body == BodyText(in)
        data == DecodeString(body).data
    IN {Tail(in), SubSeq(in, 1, Len(in) - 1), <<88>> \o Tail(in),
        SubSeq(in, 1, Len(in) - 1) \o <<88>>, body}
       \cup {Envelope(d, body) : d \in {48, 49, 50, 51, 52, 53, 58, 33, 200} \ {tag}}
       \cup {Envelope(tag, <<42>> \o body), Envelope(tag, body \o <<65>>),
             Envelope(tag, <<61>> \o body), Envelope(tag, body \o <<61>>),
             Envelope(tag, <<10>> \o body), Envelope(tag, body \o <<13, 10>>),
             Envelope(tag, EncodeToString(data \o <<0>>)),
             Envelope(tag, EncodeToString(SubSeq(data, 1, Len(data) - 1))),
             Envelope(tag, EncodeToString(IF Len(data) > 64 THEN SubSeq(data, 1, 64)
                                          ELSE data \o <<0, 0>>))}
       \cup (IF Len(body) = 0 THEN {}
             ELSE {Envelope(tag, Tail(body)),
                   Envelope(tag, <<body[1], 10>> \o Tail(body)),
                   Envelope(tag, <<32>> \o Tail(body))})

\* the inputs of TestMessageUnmarshalInvalid
InvalidInputs ==
    {<<>>, PrefixText, SuffixText, SuffixText \o PrefixText,
     Envelope(48, <<>>), Envelope(49, <<>>), Envelope(50, <<>>),
     Envelope(52, <<>>), Envelope(53, <<>>), Envelope(52, <<50>>),
     Envelope(51, <<240, 159, 146, 169, 240, 159, 146, 169, 240, 159, 146, 169>>),
     <<33, 88, 79, 33, 79, 88, 33>>}

\* marshalMessage(t, m)
Marshal(m) ==
    /\ call' = [op |-> "marshalMessage", t |-> TypeOf(m), m |-> m,
                text |-> marshalMessageText(TypeOf(m), m), in |-> <<>>,
                res |-> NoFunction.res]
    /\ UNCHANGED <<sess, accept, rng, wire, ret, hist, kb>>

\* unmarshalMessage(in)
Unmarshal(in) ==
    /\ call' = [call EXCEPT !.op = "unmarshalMessage", !.in = in,
                            !.res = unmarshalMessageText(in)]
    /\ UNCHANGED <<sess, accept, rng, wire, ret, hist, kb>>

\* the functions keep no state: one marshalMessage and one unmarshalMessage
\* of its text, as it is or damaged, or one unmarshalMessage of a fixed input
NextCodec ==
    \/ call.op = "none" /\ \E m \in Messages : Marshal(m)
    \/ call.op = "marshalMessage" /\ Unmarshal(call.text)
    \/ call.op = "marshalMessage" /\ \E in \in Damaged(call.text) : Unmarshal(in)
    \/ call.op = "none" /\ \E in \in InvalidInputs : Unmarshal(in)

SpecCodec == InitRatchet /\ [][NextCodec]_vars

\* ------------------------------------------- the ratchet header in bytes

dhPubSize == 32

\* the width of a counter in the header
headerNoSize == 4

headerSize == dhPubSize + 2 * headerNoSize

\* the mutant of putUint: least significant byte first
putUintLittle(n) == [i \in 1..headerNoSize |-> (n \div 256 ^ (i - 1)) % 256]

\* binary.BigEndian.PutUint32: the bytes of n, most significant first
putUint(n) == [i \in 1..headerNoSize |-> (n \div 256 ^ (headerNoSize - i)) % 256]

RECURSIVE getUint(_)
\* binary.BigEndian.Uint32
getUint(bytes) ==
    IF bytes = <<>> THEN 0
    ELSE getUint(SubSeq(bytes, 1, Len(bytes) - 1)) * 256 + bytes[Len(bytes)]

\* the mutant of headerMarshal: a counter is written whatever its size
headerMarshalUnlimited(h) ==
    [err |-> FALSE, data |-> h.DhPub \o putUint(h.PrevNo) \o putUint(h.MsgNo)]

\* header.marshal: dhPub || prevNo || msgNo, a counter above maxHeaderNo
\* being an error
headerMarshal(h) ==
    IF h.PrevNo > maxHeaderNo \/ h.MsgNo > maxHeaderNo
    THEN [err |-> TRUE, data |-> <<>>]
    ELSE [err |-> FALSE, data |-> h.DhPub \o putUint(h.PrevNo) \o putUint(h.MsgNo)]

\* parseHeader: data of another length than a header's is an error
headerParse(data) ==
    IF Len(data) # headerSize
    THEN [err |-> TRUE, header |-> NoHeader]
    ELSE [err |-> FALSE,
          header |-> [DhPub |-> SubSeq(data, 1, dhPubSize),
                      PrevNo |-> getUint(SubSeq(data, dhPubSize + 1,
                                                dhPubSize + headerNoSize)),
                      MsgNo |-> getUint(SubSeq(data, dhPubSize + headerNoSize + 1,
                                               headerSize))]]

\* the counters of a ratchet are never negative; TestHeaderMarshal takes
\* them at 0, below and above maxHeaderNo
HeaderNos ==
    {n \in 0..(maxHeaderNo + 1 + MaxNoSpread) :
        \E b \in {0, 256, maxHeaderNo + 1} : n \in (b - MaxNoSpread)..(b + MaxNoSpread)}

\* rand.Read(dhPub): two keys of dhPubSize bytes
HeaderKeys == {[i \in 1..dhPubSize |-> (b + i) % 256] : b \in {0, 250}}

\* data, err := hIn.marshal()
HdrMarshal(h) ==
    /\ call.op = "none"
    /\ call' = [op |-> "marshal", h |-> h, m |-> headerMarshal(h), in |-> <<>>,
                res |-> [err |-> FALSE, header |-> NoHeader]]
    /\ UNCHANGED <<sess, accept, rng, wire, ret, hist, kb>>

\* hOut, err := parseHeader(data)
HdrParse(data) ==
    /\ call.op = "marshal"
    /\ ~call.m.err
    /\ call' = [call EXCEPT !.op = "parseHeader", !.in = data,
                            !.res = headerParse(data)]
    /\ UNCHANGED <<sess, accept, rng, wire, ret, hist, kb>>

\* TestHeaderMarshal for every pair of counters, and parseHeader of the data
\* without its last byte
NextHeader ==
    \/ \E dhPub \in HeaderKeys : \E prevNo \in HeaderNos : \E msgNo \in HeaderNos :
          HdrMarshal([DhPub |-> dhPub, PrevNo |-> prevNo, MsgNo |-> msgNo])
    \/ HdrParse(call.m.data)
    \/ call.op = "marshal" /\ ~call.m.err
          /\ HdrParse(SubSeq(call.m.data, 1, Len(call.m.data) - 1))

SpecHeader == InitRatchet /\ [][NextHeader]_vars

\* ------------------------------------------- encrypt and decrypt on their own

\* rand.Read(msgKey): message keys of 32 bytes, as chainKdf makes them
AeadKeys == {chainKdf(<<"ck", n>>).msgKey : n \in 1..MaxAeadKeys}

\* rand.Read(associatedData)
AeadAds == {<<"ad", n>> : n \in 1..MaxAeadAds}

\* the empty plaintext, one of less than a block and the one of
\* TestEncryptionDecryption, of more than three blocks
AeadTexts == {"", "hello", "Lorem ipsum dolor sit amet, consectetur adipiscing elit."}

\* ciphertext, err := encrypt(msgKey, plaintextIn, associatedData)
AeadEncrypt(msgKey, plaintextIn, associatedData) ==
    /\ call.op = "none"
    /\ call' = [op |-> "encrypt", msgKey |-> msgKey, plaintextIn |-> plaintextIn,
                associatedData |-> associatedData,
                enc |-> encrypt(msgKey, plaintextIn, associatedData)]
    /\ UNCHANGED <<sess, accept, rng, wire, ret, hist, kb>>

\* plaintextOut, err := decrypt(msgKey, ciphertext, associatedData), with the
\* key and the associated data of the peer
AeadDecrypt(msgKey, associatedData) ==
    /\ call.op = "encrypt"
    /\ ~call.enc.err
    /\ call' = [op |-> "decrypt", msgKey |-> call.msgKey,
                plaintextIn |-> call.plaintextIn,
                associatedData |-> call.associatedData, enc |-> call.enc,
                peerKey |-> msgKey, peerAd |-> associatedData,
                dec |-> decrypt(msgKey, call.enc.ciphertext, associatedData)]
    /\ UNCHANGED <<sess, accept, rng, wire, ret, hist, kb>>

\* TestEncryptionDecryption, TestEncryptionDecryptionKeyOutOfSync and
\* TestEncryptionDecryptionAdOutOfSync for every key, text and data
NextAead ==
    \/ \E msgKey \in AeadKeys : \E plaintextIn \in AeadTexts :
          \E associatedData \in AeadAds :
             AeadEncrypt(msgKey, plaintextIn, associatedData)
    \/ \E msgKey \in AeadKeys : \E associatedData \in AeadAds :
          AeadDecrypt(msgKey, associatedData)

SpecAead == InitRatchet /\ [][NextAead]_vars

\* ------------------------------------------------------------- properties

\* the last call was a Receive of a data message the peer has sent
ReceivedData ==
    /\ ret.op = "Receive"
    /\ ret.idx > 0
    /\ wire[ret.idx].type = sessData

\* the last call returned the plaintext of the message it was given and
\* nothing else
Recovered ==
    /\ ~ret.err
    /\ ~ret.isEstablished
    /\ ~ret.isClosed
    /\ ret.plaintext = wire[ret.idx].plaintext

BothAccept == \A p \in Party : accept[p]

\* C1: between established sessions, when every data message is delivered
\* to the peer without loss and in sending order, whatever the changes of
\* direction, every Receive returns no error, isEstablished = false,
\* isClosed = false and the plaintext passed to the corresponding Send.
C1_RoundTripInOrder ==
    (hist.inorder /\ ReceivedData) => Recovered

\* both directions have been used, and the initiator receives in order
C1_Witness ==
    /\ hist.inorder
    /\ ReceivedData
    /\ ret.who = Initiator
    /\ Cardinality(hist.got[Initiator]) >= 1
    /\ Cardinality(hist.got[Responder]) >= 2

\* C2: when both VerifyPeer callbacks accept, the run Offer, Acknowledge,
\* Receive(ack) succeeds at every step; Receive(ack) returns isEstablished =
\* true, isClosed = false, no plaintext and no error; afterwards the
\* initiator holds a ratchet and no SPK and the responder holds a ratchet.
C2_Handshake ==
    BothAccept =>
        /\ hist.stage = "offered" =>
              /\ ~ret.err
              /\ MsgType(ret.out) = sessOffer
        /\ hist.stage = "acked" =>
              /\ ~ret.err
              /\ MsgType(ret.out) = sessAck
              /\ sess[Responder].doubleRatchet # Nil
        /\ (hist.stage = "established" /\ ret.op = "Receive" /\ MsgType(ret.msg) = sessAck) =>
              /\ ~ret.err
              /\ ret.isEstablished
              /\ ~ret.isClosed
              /\ ret.plaintext = ""
              /\ sess[Initiator].doubleRatchet # Nil
              /\ sess[Initiator].spkPub = Nil
              /\ sess[Initiator].spkPriv = Nil
              /\ sess[Responder].doubleRatchet # Nil

\* the initiator has just received the acknowledgement of its offer
C2_Witness ==
    /\ BothAccept
    /\ hist.stage = "established"
    /\ ret.op = "Receive"
    /\ MsgType(ret.msg) = sessAck

\* C3: whenever Receive returns an error, the session (SPK material, ratchet
\* pointer and every ratchet field) is what it was before the call.
C3_ReceiveErrorKeepsState ==
    (ret.op = "Receive" /\ ret.err) => sess[ret.who] = ret.pre

\* C4 as stated: if either VerifyPeer rejects, neither session ever holds a
\* ratchet and no Receive returns a plaintext.
C4_NoneEstablished ==
    (\E p \in Party : ~accept[p]) =>
        /\ \A p \in Party : sess[p].doubleRatchet = Nil
        /\ ret.plaintext = ""

\* C4: a party whose own VerifyPeer rejects the peer's key never holds a
\* ratchet, and while either party rejects, no Receive on either side returns
\* a plaintext; the responder, who verifies first, may hold a ratchet although
\* the initiator rejects.
C4_RejecterNeverEstablished ==
    /\ \A p \in Party : ~accept[p] => sess[p].doubleRatchet = Nil
    /\ (\E p \in Party : ~accept[p]) => ret.plaintext = ""

\* the initiator has rejected the acknowledgement of a responder that holds
\* a ratchet
C4_Witness ==
    /\ ~accept[Initiator]
    /\ sess[Responder].doubleRatchet # Nil
    /\ ret.op = "Receive"
    /\ ret.who = Initiator
    /\ MsgType(ret.msg) = sessAck
    /\ ret.err

\* C5: if the responder's VerifyPeer rejects the identity key in the offer,
\* Acknowledge returns an error, emits no message and leaves the responder
\* session fresh, without a ratchet.
C5_ResponderRejects ==
    (ret.op = "Acknowledge" /\ MsgType(ret.msg) = sessOffer /\ ~accept[ret.who]) =>
        /\ ret.err
        /\ ret.out = Nil
        /\ sess[ret.who] = FreshSession

C5_Witness ==
    /\ ret.op = "Acknowledge"
    /\ MsgType(ret.msg) = sessOffer
    /\ ~accept[ret.who]
    /\ accept[Peer(ret.who)]

\* C6: if the initiator's VerifyPeer rejects the identity key in the
\* acknowledge message, Receive returns an error with isEstablished = false
\* and changes nothing: the SPK key pair is retained and there is no ratchet.
C6_InitiatorRejects ==
    (ret.op = "Receive" /\ MsgType(ret.msg) = sessAck /\ ~accept[ret.who]) =>
        /\ ret.err
        /\ ~ret.isEstablished
        /\ sess[ret.who] = ret.pre
        /\ sess[ret.who].doubleRatchet = Nil

\* the rejecting initiator had sent its offer
C6_Witness ==
    /\ ret.op = "Receive"
    /\ MsgType(ret.msg) = sessAck
    /\ ~accept[ret.who]
    /\ ret.idx > 0
    /\ ret.pre.spkPriv # Nil
    /\ sess[ret.who].spkPriv # Nil

C8_SendNeedsEstablished ==
    (ret.op = "Send" /\ ret.pre.doubleRatchet = Nil) =>
        /\ ret.err
        /\ ret.out = Nil
        /\ sess[ret.who] = ret.pre

\* a Send on a session that has sent its offer
C8_Witness ==
    /\ ret.op = "Send"
    /\ ret.pre.doubleRatchet = Nil
    /\ ret.pre.spkPriv # Nil

C11_LossTolerance ==
    (hist.forward /\ ReceivedData /\ ret.dropped <= maxSkip - 1) => Recovered

\* a message of a new sending chain is delivered after the end of the old
\* chain was lost: the receiver steps its DH ratchet and caches the lost keys
C11_Witness ==
    /\ hist.forward
    /\ ReceivedData
    /\ ~ret.err
    /\ ret.dropped >= 1
    /\ ret.pre.doubleRatchet[1].peerDhPub # Nil
    /\ ret.pre.doubleRatchet[1].peerDhPub # sess[ret.who].doubleRatchet[1].peerDhPub
    /\ DOMAIN sess[ret.who].doubleRatchet[1].skippedMsgKeys # {}

\* the ratchet of the last call's receiver before and after the call, and
\* the ratchet header of the data message it was given
PreRatchet == ret.pre.doubleRatchet[1]

PostRatchet == sess[ret.who].doubleRatchet[1]

GivenHeader == parseHeader(CipherOf(ret.msg)[1]).header

\* the last call was a Receive of a sent data message by a session that held
\* a ratchet
DecryptedData ==
    /\ ReceivedData
    /\ ret.pre.doubleRatchet # Nil

\* the message numbers Decrypt asks skipMsgKeys to skip: the rest of the old
\* chain and the start of the new one for a new DH key, else the gap in the
\* current chain
SkipOverflow ==
    IF GivenHeader.DhPub # PreRatchet.peerDhPub
    THEN \/ GivenHeader.PrevNo - PreRatchet.recvNo > maxSkip
         \/ GivenHeader.MsgNo > maxSkip
    ELSE GivenHeader.MsgNo - PreRatchet.recvNo > maxSkip

\* the keys of the current chain's skipped messages are in the buffer
GapCached ==
    (GivenHeader.DhPub = PreRatchet.peerDhPub /\ GivenHeader.MsgNo > PreRatchet.recvNo) =>
        /\ GivenHeader.DhPub \in DOMAIN PostRatchet.skippedMsgKeys
        /\ \A n \in PreRatchet.recvNo .. (GivenHeader.MsgNo - 1) :
               n \in DOMAIN PostRatchet.skippedMsgKeys[GivenHeader.DhPub]

\* C12: skipMsgKeys(until) fails exactly when until - recvNo > maxSkip: a
\* received message whose gap to recvNo exceeds maxSkip yields an error and
\* no plaintext; a message sent after all those delivered before it whose
\* gap is at most maxSkip (exactly maxSkip included) is decrypted and the
\* skipped keys are cached.
C12_SkipLimit ==
    DecryptedData =>
        /\ SkipOverflow => (ret.err /\ ret.plaintext = "")
        /\ (hist.forward /\ ~SkipOverflow) => (Recovered /\ GapCached)

\* a message exactly maxSkip ahead of the receiving chain is decrypted and
\* the maxSkip keys before it are cached
C12_Witness ==
    /\ DecryptedData
    /\ hist.forward
    /\ GivenHeader.DhPub = PreRatchet.peerDhPub
    /\ GivenHeader.MsgNo - PreRatchet.recvNo = maxSkip
    /\ ~ret.err
    /\ Cardinality(DOMAIN PostRatchet.skippedMsgKeys[GivenHeader.DhPub]) = maxSkip

\* a message maxSkip + 1 ahead of the receiving chain is refused
C12_OverflowSeen ==
    /\ DecryptedData
    /\ GivenHeader.DhPub = PreRatchet.peerDhPub
    /\ GivenHeader.MsgNo - PreRatchet.recvNo = maxSkip + 1
    /\ ret.err

\* the number of message keys in a ratchet's skipped-key buffer
BufferSize(dr) ==
    Cardinality(UNION {{<<d, n>> : n \in DOMAIN dr.skippedMsgKeys[d]} :
                          d \in DOMAIN dr.skippedMsgKeys})

\* C13: in every reachable state of a Double Ratchet, whatever has been
\* received, the skipped-key buffer holds at most maxSkipChains * maxSkip
\* message keys in total.
C13_BufferBounded ==
    \A p \in Party :
        sess[p].doubleRatchet # Nil =>
            BufferSize(sess[p].doubleRatchet[1]) <= maxSkipChains * maxSkip

\* the chain that was started first among those in the buffer before the
\* last call
OldestBefore ==
    CHOOSE d \in DOMAIN kb.last.pre.keys :
        \A e \in DOMAIN kb.last.pre.keys : kb.born[d] <= kb.born[e]

\* the last call inserted a key under a DH key that a full buffer did not hold
EvictingInsert ==
    /\ kb.last.op = "insert"
    /\ kb.last.dhPub \notin DOMAIN kb.last.pre.keys
    /\ Cardinality(DOMAIN kb.last.pre.keys) = maxSkipChains

\* every key the buffer held under DH key d before the last call is found
KeptChain(d) ==
    \A n \in DOMAIN kb.last.pre.keys[d] :
        find(kb.buf, d, n) = [msgKey |-> kb.last.pre.keys[d][n], err |-> FALSE]

ReceivedFlip ==
    /\ ret.op = "Receive"
    /\ ret.idx = 0
    /\ ret.msg \in Flips(ret.who)

\* C15: Receive of a data message whose body differs in one bit (in the
\* header, the AES ciphertext or the MAC) from a body the peer's Send has
\* produced returns an error and no plaintext.
C15_TamperDetected ==
    ReceivedFlip => (ret.err /\ ret.plaintext = "")

\* the part of C15 about the header: no altered message is decrypted to the
\* plaintext that was sent
C15_HeaderChecked ==
    (ReceivedFlip /\ ret.plaintext \in {"hello", LongText}) => ret.err

\* the part of C15 about the AES ciphertext: no altered message is decrypted
\* to another plaintext than the one that was sent
C15_AesChecked ==
    (ReceivedFlip /\ ret.plaintext = "damaged") => ret.err

\* the last call returned an error and nothing else, and left the session
\* as it was
Refused ==
    /\ ret.err
    /\ ~ret.isEstablished
    /\ ~ret.isClosed
    /\ ret.plaintext = ""
    /\ sess[ret.who] = ret.pre

\* C16: Receive of a message whose type does not fit the session returns an
\* error: an acknowledge message on a session that holds a ratchet, a data
\* message on a session that holds none, and an offer message in any state.
C16_UnexpectedMessage ==
    ret.op = "Receive" =>
        /\ (MsgType(ret.msg) = sessAck /\ ret.pre.doubleRatchet # Nil) => Refused
        /\ (MsgType(ret.msg) = sessData /\ ret.pre.doubleRatchet = Nil) => Refused
        /\ MsgType(ret.msg) = sessOffer => Refused

\* the established initiator is given the acknowledge message once more
C16_Witness ==
    /\ ret.op = "Receive"
    /\ ret.who = Initiator
    /\ ret.idx > 0
    /\ MsgType(ret.msg) = sessAck
    /\ ret.pre.doubleRatchet # Nil
    /\ ret.err

\* a data message reaches a session that holds no ratchet
C16_DataSeen ==
    /\ ret.op = "Receive"
    /\ MsgType(ret.msg) = sessData
    /\ ret.pre.doubleRatchet = Nil
    /\ ret.err

\* an offer message reaches Receive, of a session with and without a ratchet
C16_OfferSeen ==
    /\ ret.op = "Receive"
    /\ MsgType(ret.msg) = sessOffer
    /\ ret.pre.doubleRatchet # Nil
    /\ ret.err

\* the last call was a Receive of a well-formed close message
ReceivedClose ==
    /\ ret.op = "Receive"
    /\ ret.msg = marshalMessage(sessClose, closeBody)

\* C17: Receive of a well-formed close message returns isEstablished =
\* false, isClosed = true, an empty plaintext and no error, whatever the
\* state of the session.
C17_ReceiveClose ==
    ReceivedClose =>
        /\ ~ret.err
        /\ ~ret.isEstablished
        /\ ret.isClosed
        /\ ret.plaintext = ""

\* the peer of an established session has called Close, and the session is
\* given the close message
C17_Witness ==
    /\ ReceivedClose
    /\ ret.idx > 0
    /\ ret.pre.doubleRatchet # Nil
    /\ ret.isClosed

\* a close message reaches a session that has sent its offer
C17_OfferSentSeen ==
    /\ ReceivedClose
    /\ ret.pre.spkPriv # Nil
    /\ ret.isClosed

\* a close message reaches a session without SPK and ratchet
C17_FreshSeen ==
    /\ ReceivedClose
    /\ ret.pre = FreshSession
    /\ ret.isClosed

\* C18: Close succeeds in every state of the session, leaves the session
\* without SPK key pair and without ratchet, and returns a close message,
\* whose body is the single byte 0xff.
C18_Close ==
    ret.op = "Close" =>
        /\ ~ret.err
        /\ sess[ret.who].spkPub = Nil
        /\ sess[ret.who].spkPriv = Nil
        /\ sess[ret.who].doubleRatchet = Nil
        /\ MsgType(ret.out) = sessClose
        /\ unmarshalMessage(ret.out) = [err |-> FALSE, t |-> sessClose, m |-> <<"close", 255>>]

\* Close of a session that has sent its offer and holds the SPK
C18_Witness ==
    /\ ret.op = "Close"
    /\ ret.pre.spkPriv # Nil
    /\ sess[ret.who] = FreshSession

\* Close of a session that holds a ratchet
C18_EstablishedSeen ==
    /\ ret.op = "Close"
    /\ ret.pre.doubleRatchet # Nil
    /\ sess[ret.who] = FreshSession

\* Close of a session without SPK and ratchet
C18_FreshSeen ==
    /\ ret.op = "Close"
    /\ ret.pre = FreshSession
    /\ ~ret.err

\* C19: Offer on a session that is not fresh (one that has sent an offer or
\* holds a ratchet) returns an error and leaves the session as it was; on a
\* fresh session it succeeds, stores a new SPK and returns an offer message.
C19_OfferNeedsFresh ==
    ret.op = "Offer" =>
        IF ret.pre = FreshSession
        THEN /\ ~ret.err
             /\ sess[ret.who].spkPriv # Nil
             /\ MsgType(ret.out) = sessOffer
        ELSE /\ ret.err
             /\ sess[ret.who] = ret.pre

\* the part of C19 about the ratchet: no Offer succeeds on a session that
\* holds a ratchet
C19_OfferNotEstablished ==
    (ret.op = "Offer" /\ ret.pre.doubleRatchet # Nil) => ret.err

\* C20: Acknowledge on a session that is not fresh (one that has sent an
\* offer or holds a ratchet) returns an error and leaves the session as it
\* was: it never replaces a ratchet.
C20_AcknowledgeNeedsFresh ==
    (ret.op = "Acknowledge" /\ ret.pre # FreshSession) =>
        /\ ret.err
        /\ sess[ret.who] = ret.pre

\* the part of C20 about the ratchet: a ratchet is the same after Acknowledge
C20_RatchetKept ==
    (ret.op = "Acknowledge" /\ ret.pre.doubleRatchet # Nil) =>
        sess[ret.who].doubleRatchet = ret.pre.doubleRatchet

\* C21 as stated: every successful Receive sets exactly one of the flags
\* isEstablished and isClosed.
C21_ExactlyOneFlag ==
    (ret.op = "Receive" /\ ~ret.err) => (ret.isEstablished # ret.isClosed)

\* C21: every successful Receive is of an acknowledge, data or close message.
\* For an acknowledge message it sets isEstablished alone, and the session
\* had sent an offer and held no ratchet; for a close message it sets
\* isClosed alone; for a data message it sets neither flag. The plaintext is
\* non-empty only for a data message.
C21_ReceiveResult ==
    (ret.op = "Receive" /\ ~ret.err) =>
        /\ MsgType(ret.msg) \in {sessAck, sessData, sessClose}
        /\ ret.isEstablished <=> MsgType(ret.msg) = sessAck
        /\ ret.isClosed <=> MsgType(ret.msg) = sessClose
        /\ ret.plaintext # "" => MsgType(ret.msg) = sessData
        /\ ret.isEstablished => (ret.pre.spkPriv # Nil /\ ret.pre.doubleRatchet = Nil)

\* a data message is decrypted: a plaintext and neither flag
C21_Witness ==
    /\ ret.op = "Receive"
    /\ ~ret.err
    /\ MsgType(ret.msg) = sessData
    /\ ret.plaintext = "hello"
    /\ ~ret.isEstablished
    /\ ~ret.isClosed

\* the last call was made on a session that held a ratchet and holds one
RatchetCall ==
    /\ ret.op \in {"Send", "Receive"}
    /\ ret.pre.doubleRatchet # Nil
    /\ sess[ret.who].doubleRatchet # Nil

\* the last call was a Decrypt that stepped the DH ratchet: the header named
\* another DH key than the stored one and the old chain could be skipped
StepOnDecrypt ==
    /\ RatchetCall
    /\ ret.op = "Receive"
    /\ MsgType(ret.msg) = sessData
    /\ GivenHeader.DhPub # PreRatchet.peerDhPub
    /\ ~(PreRatchet.recvNo + maxSkip < GivenHeader.PrevNo)

\* the last call made a ratchet and stepped it at once: Acknowledge encrypts
\* the initial payload, Receive of the acknowledge message decrypts it
StepOnHandshake ==
    /\ \/ ret.op = "Acknowledge"
       \/ ret.op = "Receive" /\ MsgType(ret.msg) = sessAck
    /\ ~ret.err

\* C22: every DH ratchet step sets sendNo and recvNo to 0 and prevSendNo to
\* the value sendNo had before the step (seen after Decrypt: sendNo = 0,
\* recvNo = the header's message number + 1; after the first Encrypt of a
\* new ratchet: prevSendNo = 0, sendNo = 1, recvNo = 0), and a call without a
\* DH ratchet step leaves prevSendNo as it was.
C22_StepCounters ==
    /\ \A p \in Party :
          sess[p].doubleRatchet # Nil =>
              Let(dhStep(sess[p].doubleRatchet[1], dhKeyPair(p, rng[p] + 1)).dr, LAMBDA r :
                  /\ r.sendNo = 0
                  /\ r.recvNo = 0
                  /\ r.prevSendNo = sess[p].doubleRatchet[1].sendNo)
    /\ StepOnDecrypt =>
          /\ PostRatchet.prevSendNo = PreRatchet.sendNo
          /\ PostRatchet.sendNo = 0
          /\ ~ret.err => PostRatchet.recvNo = GivenHeader.MsgNo + 1
    /\ StepOnHandshake =>
          /\ PostRatchet.prevSendNo = 0
          /\ PostRatchet.sendNo = (IF ret.op = "Acknowledge" THEN 1 ELSE 0)
          /\ PostRatchet.recvNo = (IF ret.op = "Acknowledge" THEN 0 ELSE 1)
    /\ (RatchetCall /\ ~StepOnDecrypt) =>
          /\ PostRatchet.prevSendNo = PreRatchet.prevSendNo
          /\ PreRatchet.chainKeySend # Nil

\* a party that has sent two messages receives one of a new chain of its
\* peer: the step records the two
C22_Witness ==
    /\ StepOnDecrypt
    /\ ~ret.err
    /\ PreRatchet.sendNo = 2
    /\ PostRatchet.prevSendNo = 2
    /\ PostRatchet.sendNo = 0

\* C23: the initiator holds SPK material only while its offer is unanswered:
\* in every state where the initiator holds a ratchet (it is established),
\* spkPub and spkPriv are nil, from the successful Receive of the acknowledge
\* message to the end of the session.
C23_SpkClearedWhileEstablished ==
    sess[Initiator].doubleRatchet # Nil =>
        /\ sess[Initiator].spkPub = Nil
        /\ sess[Initiator].spkPriv = Nil

\* the part of C23 about the transition: a Receive of the acknowledge message
\* that makes a ratchet leaves no SPK material, whether it succeeds or not
C23_ClearedOnEstablish ==
    (/\ ret.op = "Receive"
     /\ MsgType(ret.msg) = sessAck
     /\ ret.pre.doubleRatchet = Nil
     /\ sess[ret.who].doubleRatchet # Nil) =>
        /\ ret.pre.spkPriv # Nil
        /\ sess[ret.who].spkPub = Nil
        /\ sess[ret.who].spkPriv = Nil

\* the initiator has become established by a successful Receive
C23_EstablishSeen ==
    /\ ret.op = "Receive"
    /\ ret.who = Initiator
    /\ ret.isEstablished
    /\ sess[Initiator].spkPriv = Nil

\* the last call was unmarshalMessage of the text the last marshalMessage
\* returned
RoundTrip ==
    /\ call.op = "unmarshalMessage"
    /\ call.m # NoMessage
    /\ call.in = call.text

\* C24: for each of the four message types and every well-formed struct of
\* that type, unmarshalMessage of the text marshalMessage returns succeeds
\* and gives the same type and an equal struct.
C24_RoundTrip ==
    /\ (call.op = "marshalMessage" /\ WellFormed(call.m)) =>
          unmarshalMessageText(call.text) =
              [err |-> FALSE, panic |-> FALSE, t |-> call.t, m |-> call.m]
    /\ (RoundTrip /\ WellFormed(call.m)) =>
          call.res = [err |-> FALSE, panic |-> FALSE, t |-> call.t, m |-> call.m]

\* the offer of TestMessageMarshall has come back from its text
C24_Witness ==
    /\ RoundTrip
    /\ call.m = offerMessage(Pattern(32), Pattern(32), Pattern(64))
    /\ call.res.t = sessOffer
    /\ call.res.m = call.m
    /\ ~call.res.err

\* round trips of the other three types, and of bytes that encode to '+',
\* '/' and padding
C24_AckSeen ==
    /\ RoundTrip /\ call.t = sessAck /\ call.res.m = call.m /\ ~call.res.err
    /\ call.m.cipher = <<251, 255>>

C24_DataSeen ==
    /\ RoundTrip /\ call.t = sessData /\ call.res.m = call.m /\ ~call.res.err
    /\ call.m.data = <<>>

C24_CloseSeen ==
    /\ RoundTrip /\ call.t = sessClose /\ call.res.m = call.m /\ ~call.res.err

\* a struct that is not well-formed does not come back
C24_IllFormedSeen ==
    /\ RoundTrip /\ ~WellFormed(call.m) /\ call.t = sessOffer
    /\ ~call.res.err /\ call.res.m # call.m

\* the classes of malformed input: an affix is missing,
LacksAffix(in) == ~HasPrefix(in, PrefixText) \/ ~HasSuffix(in, SuffixText)

\* the character after the prefix is not a digit from '1' to '4',
BadTag(in) ==
    /\ ~LacksAffix(in)
    /\ Len(in) > Len(PrefixText)
    /\ in[Len(PrefixText) + 1] \notin 49..52

\* the body text is not base64 of the standard alphabet: line breaks set
\* aside, it is not made of quanta of four characters of the alphabet, of
\* which the last may end in "=" or "==",
ValidBase64(s) ==
    Let(dropNewlines(s), LAMBDA x :
        /\ Len(x) % 4 = 0
        /\ \A i \in 1..Len(x) :
              \/ x[i] \in (65..90) \cup (97..122) \cup (48..57) \cup {43, 47}
              \/ x[i] = 61 /\ i = Len(x)
              \/ x[i] = 61 /\ i = Len(x) - 1 /\ x[Len(x)] = 61)

BadBase64(in) ==
    /\ ~LacksAffix(in)
    /\ ~BadTag(in)
    /\ Len(in) > Len(PrefixText) + Len(SuffixText)
    /\ ~ValidBase64(BodyText(in))

\* or the body's length does not fit the type: an offer is 128 bytes, an
\* acknowledge message more than 64, a close message the byte 0xff
WrongLength(in) ==
    /\ ~LacksAffix(in)
    /\ ~BadTag(in)
    /\ Len(in) > Len(PrefixText) + Len(SuffixText)
    /\ ValidBase64(BodyText(in))
    /\ Let(in[Len(PrefixText) + 1] - 48, LAMBDA t :
       Let(DecodeString(BodyText(in)).data, LAMBDA data :
           \/ t = sessOffer /\ Len(data) # 128
           \/ t = sessAck /\ Len(data) <= 64
           \/ t = sessClose /\ data # <<255>>))

\* C25: unmarshalMessage never panics, and it returns an error for an input
\* without the prefix or the suffix, with a type digit outside 1..4, with a
\* body that is not base64 of the standard alphabet (the line breaks the
\* decoder skips set aside), or with a body of the wrong length for its type
\* (offer: not 128 bytes; acknowledge: 64 bytes or fewer; close: not the
\* single byte 0xff).
C25_MalformedRejected ==
    call.op = "unmarshalMessage" =>
        /\ ~call.res.panic
        /\ (\/ LacksAffix(call.in)
            \/ BadTag(call.in)
            \/ BadBase64(call.in)
            \/ WrongLength(call.in)) => call.res.err

\* an offer of 127 bytes is rejected
C25_Witness ==
    /\ call.op = "unmarshalMessage"
    /\ WrongLength(call.in)
    /\ call.in[Len(PrefixText) + 1] = 49
    /\ Len(DecodeString(BodyText(call.in)).data) = 127
    /\ call.res.err
    /\ ~call.res.panic

\* the other classes are rejected: no prefix, no suffix, the digit '5', a
\* character outside the alphabet, an acknowledge message of 64 bytes, a
\* close message of another byte, and the shortest text with both affixes
C25_NoPrefixSeen ==
    /\ call.op = "unmarshalMessage" /\ call.res.err
    /\ ~HasPrefix(call.in, PrefixText) /\ HasSuffix(call.in, SuffixText)

C25_NoSuffixSeen ==
    /\ call.op = "unmarshalMessage" /\ call.res.err
    /\ HasPrefix(call.in, PrefixText) /\ ~HasSuffix(call.in, SuffixText)

C25_BadTagSeen ==
    /\ call.op = "unmarshalMessage" /\ call.res.err
    /\ BadTag(call.in) /\ call.in[Len(PrefixText) + 1] = 53

C25_BadBase64Seen ==
    /\ call.op = "unmarshalMessage" /\ call.res.err
    /\ BadBase64(call.in) /\ call.in[Len(PrefixText) + 1] = 51

C25_ShortAckSeen ==
    /\ call.op = "unmarshalMessage" /\ call.res.err
    /\ WrongLength(call.in) /\ call.in[Len(PrefixText) + 1] = 50
    /\ Len(DecodeString(BodyText(call.in)).data) = 64

C25_BadCloseSeen ==
    /\ call.op = "unmarshalMessage" /\ call.res.err
    /\ WrongLength(call.in) /\ call.in[Len(PrefixText) + 1] = 52
    /\ DecodeString(BodyText(call.in)).data = <<254>>

C25_OverlapSeen ==
    /\ call.op = "unmarshalMessage" /\ call.res.err
    /\ ~LacksAffix(call.in) /\ Len(call.in) < Len(PrefixText) + Len(SuffixText)

\* a body with a line break inside unmarshals like the body without it
C25_LineBreakSeen ==
    /\ call.op = "unmarshalMessage" /\ ~call.res.err
    /\ \E i \in 1..Len(call.in) : call.in[i] = 10
    /\ call.res.m = call.m

\* a data message whose body is shorter than a header, one AES block and
\* the HMAC
ShortData(msg) ==
    /\ MsgType(msg) = sessData
    /\ Len(CipherOf(msg)) < 3

ReceivedShort ==
    /\ ret.op = "Receive"
    /\ ShortData(ret.msg)

\* C26: Receive of a data message whose body is shorter than a header, one
\* AES block and the HMAC (the empty body included) returns an error, does
\* not panic and leaves the session as it was.
C26_ShortDataRejected ==
    ReceivedShort =>
        /\ ret.err
        /\ ~ret.panic
        /\ sess[ret.who] = ret.pre

\* the part of C26 about the crash: no short data message makes Receive panic
C26_NoCrash ==
    ReceivedShort => ~ret.panic

\* the part of C26 about the state: a short data message that is refused
\* with an error leaves the session as it was
C26_StateKept ==
    (ReceivedShort /\ ~ret.panic) => sess[ret.who] = ret.pre

\* what does hold of short data messages: none is decrypted, and one that
\* is shorter than a header, or is received by a session without a ratchet,
\* is refused with an error and changes nothing
C26_ShortNeverDecrypted ==
    ReceivedShort =>
        /\ ret.err
        /\ ret.plaintext = ""
        /\ (Len(CipherOf(ret.msg)) < 2 \/ ret.pre.doubleRatchet = Nil) =>
              (~ret.panic /\ sess[ret.who] = ret.pre)

\* an empty data message was refused by an established session
C26_EmptySeen ==
    /\ ReceivedShort
    /\ CipherOf(ret.msg) = Nil
    /\ ret.pre.doubleRatchet # Nil
    /\ ret.err /\ ~ret.panic

\* C27: for every pair of identity keys and every signed prekey, the session
\* key of CreateInitialMessage equals the session key ReceiveInitialMessage
\* derives from the initial message.
C27_SessionKeyAgreed ==
    call.op = "ReceiveInitialMessage" =>
        /\ ~call.recv.err
        /\ call.recv.sessKey # Nil
        /\ call.recv.sessKey = call.init.sessKey

\* alice and bob agree on a key made of three different DH outputs
C27_Witness ==
    /\ call.op = "ReceiveInitialMessage"
    /\ call.alice = "alice"
    /\ call.bob = "bob"
    /\ call.spk.spkPub = dhKeyPair("bob", MaxSpk).pub
    /\ call.recv.sessKey = call.init.sessKey
    /\ call.init.sessKey[2] # call.init.sessKey[3]
    /\ call.init.sessKey[3] # call.init.sessKey[4]

\* C28: both sides compute the same associated data: the identity public key
\* of the side that called CreateInitialMessage followed by the identity
\* public key of its peer.
C28_AssociatedDataAgreed ==
    /\ (call.op \in {"CreateInitialMessage", "ReceiveInitialMessage"} /\ ~call.init.err) =>
          call.init.associatedData = <<IdPub(call.alice), IdPub(call.bob)>>
    /\ call.op = "ReceiveInitialMessage" =>
          call.recv.associatedData = call.init.associatedData

\* alice and bob hold the same associated data, alice's key first
C28_Witness ==
    /\ call.op = "ReceiveInitialMessage"
    /\ call.alice = "alice"
    /\ call.bob = "bob"
    /\ ~call.recv.err
    /\ call.recv.associatedData = <<IdPub("alice"), IdPub("bob")>>
    /\ call.init.associatedData = call.recv.associatedData

\* the last call was Acknowledge of an offer whose signature is not the
\* signature of its prekey by its identity key
BadSignatureOffer ==
    /\ ret.op = "Acknowledge"
    /\ MsgType(ret.msg) = sessOffer
    /\ ~unmarshalMessage(ret.msg).err
    /\ Let(unmarshalMessage(ret.msg).m, LAMBDA offer :
           ~edVerify(offer[2], offer[3], offer[4]))

\* C29: Acknowledge of an offer whose prekey signature does not verify
\* returns an error and no message, also when VerifyPeer accepts the
\* offer's identity key, and leaves the session as it was: a fresh responder
\* stays fresh, without a ratchet.
C29_BadSignatureRefused ==
    BadSignatureOffer =>
        /\ ret.err
        /\ ret.out = Nil
        /\ sess[ret.who] = ret.pre
        /\ ret.pre = FreshSession => sess[ret.who].doubleRatchet = Nil

\* a fresh responder that accepts the peer's key has refused an offer in
\* the peer's name
C29_Witness ==
    /\ BadSignatureOffer
    /\ accept[ret.who]
    /\ VerifyPeer(ret.who, unmarshalMessage(ret.msg).m[2])
    /\ ret.pre = FreshSession
    /\ ret.err
    /\ sess[ret.who] = FreshSession

\* a call on a session that was closed before, in a later handshake
Reused == Generation > 1 /\ Current(sessClose) = {}

\* C30: Close resets the session: after it the session holds what a new one
\* holds, and in every handshake of sessions used again, Offer and
\* Acknowledge start from that state and succeed, the acknowledging party's
\* ratchet and the offering party's after Receive of the acknowledgement
\* start with the counters of a new session, Receive of the acknowledgement
\* reports the session established, and every Send succeeds and every data
\* message is decrypted to its plaintext.
C30_ReusedLikeFresh ==
    /\ ret.op = "Close" =>
          /\ ~ret.err
          /\ sess[ret.who] = FreshSession
          /\ ret.out = marshalMessage(sessClose, closeBody)
    /\ ret.op = "Offer" =>
          /\ ret.pre = FreshSession
          /\ ~ret.err
          /\ MsgType(ret.out) = sessOffer
          /\ sess[ret.who].spkPriv # Nil
          /\ sess[ret.who].doubleRatchet = Nil
    /\ ret.op = "Acknowledge" =>
          /\ ret.pre = FreshSession
          /\ ~ret.err
          /\ MsgType(ret.out) = sessAck
          /\ sess[ret.who].doubleRatchet # Nil
          /\ sess[ret.who].doubleRatchet[1].sendNo = 1
          /\ sess[ret.who].doubleRatchet[1].recvNo = 0
          /\ sess[ret.who].doubleRatchet[1].prevSendNo = 0
          /\ sess[ret.who].doubleRatchet[1].skippedMsgKeys = EmptyMap
    /\ (ret.op = "Receive" /\ MsgType(ret.msg) = sessAck) =>
          /\ ~ret.err
          /\ ret.isEstablished
          /\ sess[ret.who].spkPriv = Nil
          /\ sess[ret.who].doubleRatchet # Nil
          /\ sess[ret.who].doubleRatchet[1].sendNo = 0
          /\ sess[ret.who].doubleRatchet[1].recvNo = 1
          /\ sess[ret.who].doubleRatchet[1].prevSendNo = 0
          /\ sess[ret.who].doubleRatchet[1].skippedMsgKeys = EmptyMap
    /\ ret.op = "Send" => ~ret.err /\ MsgType(ret.out) = sessData
    /\ (ret.op = "Receive" /\ MsgType(ret.msg) = sessData) =>
          /\ ~ret.err
          /\ ret.plaintext = wire[ret.idx].plaintext
    /\ (ret.op = "Receive" /\ MsgType(ret.msg) = sessClose) =>
          ~ret.err /\ ret.isClosed

\* in a second handshake of the same two sessions, both closed before, the
\* party that made the second offer has decrypted a data message of the peer
C30_Witness ==
    /\ Reused
    /\ ret.op = "Receive"
    /\ MsgType(ret.msg) = sessData
    /\ ret.idx > LastOffer
    /\ ~ret.err
    /\ ret.plaintext = "hello"
    /\ wire[LastOffer].from = ret.who
    /\ \A p \in Party : \E i \in Indices(sessClose) : wire[i].from = p

\* the party that acknowledged the second offer has decrypted a data message
\* of the party that made it
C30_AcknowledgerSeen ==
    /\ Reused
    /\ ret.op = "Receive"
    /\ MsgType(ret.msg) = sessData
    /\ ret.idx > LastOffer
    /\ ret.plaintext = "hello"
    /\ wire[LastOffer].from = Peer(ret.who)

\* the party that acknowledged the first offer has made the second one, and
\* the session is established again
C30_RolesSwappedSeen ==
    /\ Reused
    /\ ret.op = "Receive"
    /\ ret.isEstablished
    /\ wire[1].from # ret.who

\* a party has closed its session before the handshake was finished, and
\* has then acknowledged an offer of the peer
C30_EarlyCloseSeen ==
    /\ Reused
    /\ ret.op = "Acknowledge"
    /\ ~ret.err
    /\ Indices(sessAck) = {Len(wire)}

\* the last call was one of the plain run, made after the message was
\* handed in
AfterGiven ==
    /\ call.op = "Fuzz"
    /\ call.done > 0
    /\ ret.idx > 0 \/ ret.op # "Receive"
    /\ call.mode <= FuzzSlot(call.done - 1)

\* C31: a message handed to Receive out of turn does not hinder the plain
\* run: no later call of Offer, Acknowledge, Receive(ack), Send,
\* Receive(data), Close, Receive(close), Close returns an error or flags
\* other than the expected ones.
C31_PlainRunUnhindered == AfterGiven => ~call.failed

\* what holds: bytes that are no envelope, a close and an acknowledgement in
\* another name than the peer's change nothing, and no call after them fails
C31_RefusedInputHarmless ==
    /\ (/\ call.op = "Fuzz"
        /\ ret.op = "Receive"
        /\ ret.idx = 0
        /\ \/ MsgType(call.msg) \notin {sessAck, sessData}
           \/ /\ MsgType(call.msg) = sessAck
              /\ unmarshalMessage(call.msg).m[2] # IdPub(Peer(ret.who)))
       => sess[ret.who] = ret.pre
    /\ (/\ AfterGiven
        /\ \/ MsgType(call.msg) \notin {sessAck, sessData}
           \/ /\ MsgType(call.msg) = sessAck
              /\ unmarshalMessage(call.msg).m[2] = IdPub("eve"))
       => ~call.failed

\* the whole run was made after a close was handed in before the offer
C31_HarmlessSeen ==
    /\ AfterGiven
    /\ call.mode = 0
    /\ MsgType(call.msg) = sessClose
    /\ call.done = FuzzModes
    /\ ~call.failed

\* the part of C31 for an acknowledgement in the peer's name: violated, the
\* initiator that was given one after its Offer refuses the genuine one
C31_AckUnhindered ==
    (AfterGiven /\ MsgType(call.msg) = sessAck) => ~call.failed

\* the part of C31 for data under an unknown DH key: violated, a party that
\* was given it cannot decrypt the peer's next message
C31_DataUnhindered ==
    (AfterGiven /\ MsgType(call.msg) = sessData) => ~call.failed

\* the last call was a Receive of a data message of a sending chain the
\* peer has left, by a party that has stepped to the peer's next chain and
\* holds the message's key among the skipped ones
LateOldChain ==
    /\ DecryptedData
    /\ ~ret.replay
    /\ GivenHeader.DhPub # PreRatchet.peerDhPub
    /\ GivenHeader.DhPub \in DOMAIN PreRatchet.skippedMsgKeys
    /\ GivenHeader.MsgNo \in DOMAIN PreRatchet.skippedMsgKeys[GivenHeader.DhPub]

\* C32: a data message of the peer's previous sending chain, delivered after
\* the receiver has stepped to the peer's next chain, is decrypted with the
\* key cached at that step, without another DH ratchet step and without a
\* change of peerDhPub, the chain keys or the counters.
C32_LateOldChainDecrypted ==
    LateOldChain =>
        /\ Recovered
        /\ PostRatchet.dhr = PreRatchet.dhr
        /\ PostRatchet.peerDhPub = PreRatchet.peerDhPub
        /\ PostRatchet.chainKeySend = PreRatchet.chainKeySend
        /\ PostRatchet.chainKeyRecv = PreRatchet.chainKeyRecv
        /\ PostRatchet.sendNo = PreRatchet.sendNo
        /\ PostRatchet.recvNo = PreRatchet.recvNo
        /\ PostRatchet.prevSendNo = PreRatchet.prevSendNo

\* the part of C32 on the result: violated, the message is not decrypted
C32_LateDecrypted == LateOldChain => Recovered

\* the part of C32 on the DH ratchet: violated, the receiver takes the old
\* DH key for a new one and steps again
C32_LateNoStep ==
    LateOldChain =>
        /\ PostRatchet.dhr = PreRatchet.dhr
        /\ PostRatchet.peerDhPub = PreRatchet.peerDhPub

\* the messages of p that carry a ratchet header: the acknowledge message
\* with the initial ciphertext, and the data messages
Ratcheted(p) ==
    {i \in 1..Len(wire) : wire[i].from = p /\ wire[i].type \in {sessAck, sessData}}

\* the ratchet header of a message on the wire
WireHeader(i) ==
    parseHeader(IF wire[i].type = sessAck THEN wire[i].msg[3][2][4][1]
                ELSE CipherOf(wire[i].msg)[1]).header

\* the messages p emitted on the sending chain of the DH key dhPub
OnChain(p, dhPub) == {i \in Ratcheted(p) : WireHeader(i).DhPub = dhPub}

\* a party draws its key pairs one after the other: the key of the sending
\* chain before that of dhPub is the one drawn before it (for the first
\* chain the signed prekey or the ephemeral key, which heads no chain)
PrevChainKey(dhPub) == <<"pub", dhPub[2], dhPub[3] - 1>>

\* the responder answers the initiator's first data message, which it has
\* received, with its own first one; nothing else was handed to a Receive
AlternateReply ==
    /\ ret.op = "Send"
    /\ hist.forged = 0
    /\ ret.who = Responder
    /\ ~ret.err
    /\ Indices(sessData) = {3, 4}
    /\ wire[3].from = Initiator
    /\ wire[4].from = Responder
    /\ hist.got[Responder] = {3}

\* C33: the PrevNo of every message header is the number of messages the
\* sender emitted on its previous sending chain; when the parties alternate
\* after the handshake, the responder's first data message after the
\* initiator's first one carries PrevNo = 1, the initial ciphertext of the
\* acknowledge message.
C33_PrevNo ==
    /\ \A p \in Party : \A i \in Ratcheted(p) :
          WireHeader(i).PrevNo =
              Cardinality(OnChain(p, PrevChainKey(WireHeader(i).DhPub)))
    /\ AlternateReply =>
          /\ WireHeader(4).PrevNo = 1
          /\ OnChain(Responder, PrevChainKey(WireHeader(4).DhPub)) = {2}

\* the responder has answered the initiator's first data message
C33_Witness ==
    /\ AlternateReply
    /\ WireHeader(4).PrevNo = 1
    /\ WireHeader(3).PrevNo = 0

\* a message carries the length of a previous chain of two messages
C33_LongerChainSeen ==
    \E p \in Party : \E i \in Ratcheted(p) :
        /\ WireHeader(i).PrevNo = 2
        /\ Cardinality(OnChain(p, PrevChainKey(WireHeader(i).DhPub))) = 2

\* every data message sent so far has been delivered, once
AllGiven ==
    /\ call.op = "Once"
    /\ Handshaken
    /\ Indices(sessData) # {}
    /\ call.given = Indices(sessData)

NoSkippedKeys ==
    \A p \in Party : sess[p].doubleRatchet[1].skippedMsgKeys = EmptyMap

\* C34: once every message sent so far has been delivered exactly once, in
\* any order within the skip bounds, the skipped-key buffers are empty.
C34_BufferEmptied == AllGiven => NoSkippedKeys

\* what holds: when every Send was made by a party with nothing left to
\* receive, so that messages change places only within one sending chain,
\* every message is decrypted and the buffers are empty once all are
\* delivered
C34_RunEmptied ==
    (AllGiven /\ hist.batched) =>
        /\ NoSkippedKeys
        /\ \A p \in Party : hist.got[p] = Indices(sessData) \cap FromPeer(p)

\* three messages of one chain were delivered out of order, the last one
\* with a cached key
C34_RunSeen ==
    /\ AllGiven
    /\ hist.batched
    /\ ~hist.inorder
    /\ ReceivedData
    /\ BufferSize(PreRatchet) = 1
    /\ NoSkippedKeys
    /\ Cardinality(hist.got[ret.who]) = 3

\* a session in one of the states: Fresh and Closed (nothing), OfferSent
\* (SPK, no ratchet), Established (ratchet, no SPK)
OneState(s) ==
    ~(/\ s.doubleRatchet # Nil
      /\ s.spkPub # Nil \/ s.spkPriv # Nil)

\* C35: in every reachable state a session is Fresh, OfferSent, Established
\* or Closed: it never holds SPK material and a ratchet at the same time,
\* after any sequence of Offer, Acknowledge, Receive, Send and Close.
C35_OneState == \A p \in Party : OneState(sess[p])

\* what holds: Receive, Send and Close on a session in one of the states,
\* and Offer and Acknowledge on a fresh one, leave it in one of the states
C35_KeptFromFresh ==
    (/\ ret.op # "none"
     /\ OneState(ret.pre)
     /\ ret.op \in {"Offer", "Acknowledge"} => ret.pre = FreshSession)
    => OneState(sess[ret.who])

\* the initiator has become established and holds no SPK
C35_EstablishedSeen ==
    /\ ret.op = "Receive"
    /\ ret.isEstablished
    /\ ret.pre.spkPriv # Nil
    /\ OneState(sess[ret.who])
    /\ sess[ret.who].doubleRatchet # Nil

\* C36: a sender never emits two messages with the same header pair (DhPub,
\* MsgNo): on one sending chain MsgNo starts at 0 and grows by one with every
\* Encrypt; Send leaves the sender's DH key as it is, so that Sends in a row
\* carry the same DhPub, and only a Receive of a message that carries another
\* DH key than the stored peer key changes it.
C36_HeaderUnique ==
    /\ \A p \in Party : \A i, j \in Ratcheted(p) :
          (/\ WireHeader(i).DhPub = WireHeader(j).DhPub
           /\ WireHeader(i).MsgNo = WireHeader(j).MsgNo) => i = j
    /\ \A p \in Party : \A i \in Ratcheted(p) :
          WireHeader(i).MsgNo =
              Cardinality({j \in OnChain(p, WireHeader(i).DhPub) : j < i})
    /\ (ret.op = "Send" /\ ~ret.err) =>
          /\ PostRatchet.dhr.dhPub = PreRatchet.dhr.dhPub
          /\ WireHeader(Len(wire)).DhPub = PreRatchet.dhr.dhPub
          /\ WireHeader(Len(wire)).MsgNo = PreRatchet.sendNo
          /\ PostRatchet.sendNo = PreRatchet.sendNo + 1
    /\ (RatchetCall /\ PostRatchet.dhr.dhPub # PreRatchet.dhr.dhPub) =>
          /\ ret.op = "Receive"
          /\ MsgType(ret.msg) = sessData
          /\ GivenHeader.DhPub # PreRatchet.peerDhPub

\* a party has sent two messages in a row under one DH key, numbered one
\* after the other, after messages under another DH key
C36_Witness ==
    /\ ret.op = "Send"
    /\ ~ret.err
    /\ Len(wire) >= 2
    /\ wire[Len(wire) - 1].from = ret.who
    /\ wire[Len(wire) - 1].type = sessData
    /\ WireHeader(Len(wire) - 1).DhPub = WireHeader(Len(wire)).DhPub
    /\ WireHeader(Len(wire) - 1).MsgNo + 1 = WireHeader(Len(wire)).MsgNo
    /\ \E i \in Ratcheted(ret.who) : WireHeader(i).DhPub # WireHeader(Len(wire)).DhPub

\* a Receive has changed the receiver's DH key
C36_StepSeen ==
    /\ RatchetCall
    /\ ret.op = "Receive"
    /\ ~ret.err
    /\ PostRatchet.dhr.dhPub # PreRatchet.dhr.dhPub

\* C37: a successful Send changes the sending side of the ratchet alone: the
\* send chain key moves on and sendNo grows by one, while recvNo, the receive
\* chain key, peerDhPub, prevSendNo, the DH ratchet with the own key pair,
\* the skipped keys, the associated data and the SPK fields stay as they
\* were.  The one Encrypt that steps the DH ratchet is the active party's
\* first one, made by Acknowledge on the ratchet it creates: it keeps the own
\* key pair and leaves the receiving side empty.
C37_SendFrame ==
    /\ (ret.op = "Send" /\ ~ret.err) =>
          /\ ret.pre.doubleRatchet # Nil
          /\ PostRatchet = [PreRatchet EXCEPT
                               !.chainKeySend = chainKdf(PreRatchet.chainKeySend).ckOut,
                               !.sendNo = PreRatchet.sendNo + 1]
          /\ PostRatchet.chainKeySend # PreRatchet.chainKeySend
          /\ sess[ret.who].spkPub = ret.pre.spkPub
          /\ sess[ret.who].spkPriv = ret.pre.spkPriv
    /\ (ret.op = "Acknowledge" /\ ~ret.err) =>
          /\ PostRatchet.dhr.isActive
          /\ PostRatchet.dhr.isInitialized
          /\ PostRatchet.dhr.dhPub # Nil
          /\ PostRatchet.chainKeySend # Nil
          /\ PostRatchet.sendNo = 1
          /\ PostRatchet.chainKeyRecv = Nil
          /\ PostRatchet.recvNo = 0
          /\ PostRatchet.prevSendNo = 0
          /\ PostRatchet.skippedMsgKeys = EmptyMap

\* a party that has received messages, some of them out of order, so that
\* it holds a skipped key, has sent a message
C37_Witness ==
    /\ ret.op = "Send"
    /\ ~ret.err
    /\ PreRatchet.recvNo > 0
    /\ PreRatchet.prevSendNo > 0
    /\ PreRatchet.skippedMsgKeys # EmptyMap
    /\ PostRatchet.sendNo = PreRatchet.sendNo + 1

\* C38: the active peer's DH ratchet makes its initial step once. That step
\* keeps the own key pair and the peer key stored at construction, derives
\* the send secret alone, from the own private key and the stored peer key,
\* whatever the argument is, and marks the ratchet initialized. Every other
\* step, each step of the passive peer among them, stores the peer key it is
\* given, derives the receive secret with the old private key, draws a key
\* pair never used before and derives the send secret with the new private
\* key; both secrets are the ones the holder of the peer key derives from
\* the ratchet's public keys.
PrivOf(pub) == <<"priv", pub[2], pub[3]>>

InitialStep == call.pre.isActive /\ ~call.pre.isInitialized

C38_DhRatchetStep ==
    /\ call.op \in {"dhRatchetActive", "dhRatchetPassive", "step"} =>
          /\ call.initial <= 1
          /\ call.r.isInitialized <=> call.initial = 1
          /\ ~call.r.isActive => call.initial = 0
    /\ (call.op = "step" /\ InitialStep) =>
          /\ call.res.r.dhPub = call.pre.dhPub
          /\ call.res.r.dhPriv = call.pre.dhPriv
          /\ call.res.r.peerDhPub = call.stored
          /\ call.res.recvKey = Nil
          /\ ~call.res.gen
          /\ call.res.err <=> call.stored = Nil
          /\ \A peerDhPub \in PeerKeys :
                step(call.pre, peerDhPub, dhKeyPair(DhrOwner, call.drawn + 1)) = call.res
          /\ ~call.res.err =>
                /\ call.res.r.isInitialized
                /\ call.initial = 1
                /\ call.res.sendKey
                      = rootKdf(call.pre.rootKey,
                                dh(call.pre.dhPriv, call.stored).out).ck
                /\ dh(call.pre.dhPriv, call.stored)
                      = dh(PrivOf(call.stored), call.pre.dhPub)
    /\ (call.op = "step" /\ ~InitialStep) =>
          /\ call.res.r.peerDhPub = call.arg
          /\ call.res.r.isInitialized = call.pre.isInitialized
          /\ call.res.err <=> call.arg = Nil
          /\ call.res.err =>
                /\ call.res.r.dhPub = call.pre.dhPub
                /\ call.res.r.dhPriv = call.pre.dhPriv
          /\ ~call.res.err =>
                /\ call.res.gen
                /\ call.res.r.dhPub \notin call.before
                /\ call.res.r.dhPriv = PrivOf(call.res.r.dhPub)
                /\ call.res.recvKey
                      = rootKdf(call.pre.rootKey,
                                dh(call.pre.dhPriv, call.arg).out).ck
                /\ call.res.sendKey
                      = rootKdf(rootKdf(call.pre.rootKey,
                                        dh(call.pre.dhPriv, call.arg).out).rkOut,
                                dh(call.res.r.dhPriv, call.arg).out).ck
                /\ dh(call.pre.dhPriv, call.arg)
                      = dh(PrivOf(call.arg), call.pre.dhPub)
                /\ dh(call.res.r.dhPriv, call.arg)
                      = dh(PrivOf(call.arg), call.res.r.dhPub)
                /\ call.res.sendKey # call.res.recvKey

\* the active peer has made its initial step and a later step, which was
\* given another peer key than the one stored at construction
C38_Witness ==
    /\ call.op = "step"
    /\ call.r.isActive
    /\ call.initial = 1
    /\ call.steps >= 2
    /\ ~InitialStep
    /\ ~call.res.err
    /\ call.arg # call.stored

\* the passive peer has made two steps
C38_PassiveSeen ==
    /\ call.op = "step"
    /\ ~call.r.isActive
    /\ call.steps >= 2
    /\ ~call.res.err

\* the active peer's initial step was given another key than the stored one
C38_IgnoredSeen ==
    /\ call.op = "step"
    /\ InitialStep
    /\ ~call.res.err
    /\ call.arg # call.stored

C39_RefusedSeen ==
    /\ call.op = "marshal"
    /\ call.m.err
    /\ call.h.PrevNo = 65536
    /\ call.h.MsgNo = 65535

\* counters that fill more than one byte, and differ, have come back
C39_TwoBytesSeen ==
    /\ call.op = "parseHeader"
    /\ call.res.header = call.h
    /\ call.h.PrevNo = 256
    /\ call.h.MsgNo = 258

\* C40: decrypt under the message key and the associated data of encrypt
\* returns the plaintext without error; decrypt under another message key,
\* or with other associated data, does not return it: it fails, the tag
\* being another one than the HMAC it expects.
C40_AeadRoundTrip ==
    /\ call.op = "encrypt" => ~call.enc.err
    /\ call.op = "decrypt" =>
          /\ ~call.dec.panic
          /\ (call.peerKey = call.msgKey /\ call.peerAd = call.associatedData) =>
                /\ ~call.dec.err
                /\ call.dec.plaintext = call.plaintextIn
          /\ (call.peerKey # call.msgKey \/ call.peerAd # call.associatedData) =>
                /\ call.dec.err \/ call.dec.plaintext # call.plaintextIn
                /\ call.enc.ciphertext[2]
                      # hmacSum(encryptParams(call.peerKey).authKey, call.peerAd)

\* the text of the test has been encrypted and decrypted
C40_Witness ==
    /\ call.op = "decrypt"
    /\ call.peerKey = call.msgKey
    /\ call.peerAd = call.associatedData
    /\ ~call.dec.err
    /\ call.dec.plaintext = call.plaintextIn
    /\ Len(call.plaintextIn) > 3 * aesBlockSize

\* decrypt under another key has failed
C40_OtherKeySeen ==
    /\ call.op = "decrypt"
    /\ call.peerKey # call.msgKey
    /\ call.peerAd = call.associatedData
    /\ call.dec.err

\* decrypt with other associated data has failed
C40_OtherAdSeen ==
    /\ call.op = "decrypt"
    /\ call.peerKey = call.msgKey
    /\ call.peerAd # call.associatedData
    /\ call.dec.err

\* the empty plaintext has been encrypted and decrypted
C40_EmptySeen ==
    /\ call.op = "decrypt"
    /\ call.peerKey = call.msgKey
    /\ call.peerAd = call.associatedData
    /\ ~call.dec.err
    /\ call.plaintextIn = ""
    /\ call.dec.plaintext = ""

====
